---- MODULE Spec2Model ----
(***************************************************************************)
(* Connection lifecycle manager of the MCP database server:               *)
(* DatabaseConnectionManager (src/src/database/factory.ts) and the part   *)
(* of MCPDatabaseServer.start (src/src/server/mcp-server.ts) that drives   *)
(* it.  Every async method is cut at its await points: one action runs    *)
(* the synchronous segment up to the next await, a later action resumes   *)
(* it when the awaited driver call settles (successfully or not).         *)
(***************************************************************************)
EXTENDS Integers, Sequences, FiniteSets, Bags, TLC

\* ------------------------------------------------------------------ bounds
\* Connection names are 1..NumNames.
NumNames == 2
\* addConnection / removeConnection frames suspended at an await at one time.
MaxInFlight == 2
\* Driver instances alive at one time (connecting, connected or still
\* referenced); an instance that is closed and unreferenced is forgotten.
MaxDrivers == 2
\* Manager calls (addConnection, removeConnection, initializeConnections,
\* retryFailedConnections, disconnectAll) in flight at one time.
MaxOps == 2
\* Connection names configured when the tool handlers are exercised (one of
\* each backend type).
NumToolNames == 3
\* The largest maxRetries a retry(fn, maxRetries, baseDelay) call is given.
MaxRetries == 4

Names == 1..NumNames
ToolNames == 1..NumToolNames

\* ------------------------------------------------------------ data model
\* Map.get(name) on a missing key: undefined.
NoDriver == 0

NoError == "none"
InvalidConfig == "invalid config"
ConnectFailed == "connect failed"
DisconnectFailed == "disconnect failed"

\* A config field that is not set (undefined), and an absent connection_name.
NoValue == "undefined"
NoName == 0

\* DatabaseConfig: the name, the backend type and the addressing fields that
\* validateConfig and the tool handlers read.  A config is either complete or
\* lacks one required field (database for the network backends, path for
\* sqlite).
Types == <<"sqlite", "postgresql", "mysql">>
TypeOf(n) == Types[((n - 1) % 3) + 1]
MakeConfig(n, complete) ==
  IF TypeOf(n) = "sqlite"
    THEN [name |-> n, type |-> "sqlite", host |-> NoValue, database |-> NoValue,
          username |-> NoValue, password |-> NoValue,
          path |-> IF complete THEN "./data.db" ELSE NoValue]
    ELSE [name |-> n, type |-> TypeOf(n), host |-> "localhost",
          database |-> IF complete THEN "mydb" ELSE NoValue,
          username |-> "dbuser", password |-> NoValue, path |-> NoValue]
Configs ==
  {MakeConfig(n, complete) : n \in {NoName} \cup Names \cup ToolNames, complete \in BOOLEAN}

VARIABLES
  settings,            \* configManager settings.databases: one config per name
  connections,         \* Map<string, DatabaseDriver>: name -> driver id
  connectionStatuses,  \* Map<string, ConnectionStatus>
  drivers,             \* the driver instances alive, by id
  calls,               \* bag of addConnection / removeConnection frames suspended at an await
  initOp,              \* the initializeConnections call in flight
  retryOp,             \* the retryFailedConnections call in flight
  discAllOp,           \* the disconnectAll call in flight
  toolOp,              \* the tool handler call in flight
  serial,              \* TRUE: callers issue one manager call at a time
  ev,                  \* what the last step did (call started / resolved / rejected)
  attempted,           \* history: the names addConnection has recorded an attempt for
  snapshot,            \* the array a status getter returned, as its holder sees it
  env,                 \* process.env, as loadConfig reads it
  backoffOp            \* the retry(fn, maxRetries, baseDelay) call in flight

vars == <<settings, connections, connectionStatuses, drivers, calls,
          initOp, retryOp, discAllOp, toolOp, serial, ev, attempted, snapshot,
          env, backoffOp>>

\* The registry and the frames as one value, so that the synchronous segments
\* can be composed the way the code calls them.
Reg == [connections |-> connections, connectionStatuses |-> connectionStatuses,
        drivers |-> drivers, calls |-> calls, attempted |-> attempted]

\* Map.set / Map.delete
MapSet(m, k, v) == [x \in (DOMAIN m) \cup {k} |-> IF x = k THEN v ELSE m[x]]
MapDelete(m, k) == [x \in (DOMAIN m) \ {k} |-> m[x]]
EmptyMap == [x \in {} |-> NoDriver]
Range(m) == {m[k] : k \in DOMAIN m}

\* ConnectionStatus values written by addConnection (lastAttempt, a wall
\* clock reading, is not represented).
StatusAttempt(config) ==
  [name |-> config.name, connected |-> FALSE, type |-> config.type,
   error |-> NoError, config |-> config]
StatusConnected(config) ==
  [name |-> config.name, connected |-> TRUE, type |-> config.type,
   error |-> NoError, config |-> config]
StatusFailed(config, message) ==
  [name |-> config.name, connected |-> FALSE, type |-> config.type,
   error |-> message, config |-> config]

\* Faulty variant of validateConfig, for contrast: the name is not looked at.
validateConfigAnyName(config) ==
  CASE config.type \in {"postgresql", "mysql"} ->
         config.host # NoValue /\ config.database # NoValue /\ config.username # NoValue
    [] config.type = "sqlite" -> config.path # NoValue
    [] OTHER -> FALSE

\* DatabaseDriverFactory.validateConfig: does not throw.
validateConfig(config) ==
  /\ config.name # NoName
  /\ CASE config.type \in {"postgresql", "mysql"} ->
            config.host # NoValue /\ config.database # NoValue /\ config.username # NoValue
       [] config.type = "sqlite" -> config.path # NoValue
       [] OTHER -> FALSE

\* new XDriver(config): BaseDatabaseDriver.connected starts false.
NewDriver(config) ==
  [name |-> config.name, connected |-> FALSE, disconnectCalled |-> FALSE]

\* driver.disconnect() is invoked on driver d.
CallDisconnect(ds, d) == [ds EXCEPT ![d].disconnectCalled = TRUE]

\* Identity of a new driver instance: the least id not in use.
FreeId(used) == CHOOSE i \in 1..(Cardinality(used) + 1) :
                  i \notin used /\ \A j \in 1..(i - 1) : j \in used

\* ----------------------------------------------- synchronous code segments
\* DatabaseDriverFactory.createAndConnect up to `await driver.connect()`.
\* An invalid config throws before a driver exists: the frame then waits
\* with no driver and can only be resumed by the rejection.
Suspend(frames, f) == frames (+) SetToBag({f})
Resume(frames, f) == frames (-) SetToBag({f})

createAndConnect(r, config, caller) ==
  IF validateConfig(config)
    THEN [r EXCEPT
            !.drivers = MapSet(@, FreeId(DOMAIN r.drivers), NewDriver(config)),
            !.calls = Suspend(@, [op |-> "add", name |-> config.name,
                                  config |-> config, pc |-> "connect",
                                  driver |-> FreeId(DOMAIN r.drivers),
                                  caller |-> caller])]
    ELSE [r EXCEPT
            !.calls = Suspend(@, [op |-> "add", name |-> config.name,
                                  config |-> config, pc |-> "connect",
                                  driver |-> NoDriver, caller |-> caller])]

\* Faulty variant of addConnection, for contrast: the attempt is not recorded
\* in the status map.
addConnectionKeepingStatus(r, config, caller) ==
  LET r1 == [r EXCEPT !.attempted = @ \cup {config.name}]
  IN IF config.name \in DOMAIN r1.connections
       THEN [r1 EXCEPT
               !.drivers = CallDisconnect(@, r1.connections[config.name]),
               !.calls = Suspend(@, [op |-> "add", name |-> config.name,
                                     config |-> config, pc |-> "disconnect",
                                     driver |-> r1.connections[config.name],
                                     caller |-> caller])]
       ELSE createAndConnect(r1, config, caller)

\* addConnection(config) up to its first await: the attempt is recorded, then
\* either the existing driver's disconnect() is awaited (removeConnection,
\* replace path) or the new driver's connect().
addConnection(r, config, caller) ==
  LET r1 == [r EXCEPT !.connectionStatuses = MapSet(@, config.name, StatusAttempt(config)),
                      !.attempted = @ \cup {config.name}]
  IN IF config.name \in DOMAIN r1.connections
       THEN [r1 EXCEPT
               !.drivers = CallDisconnect(@, r1.connections[config.name]),
               !.calls = Suspend(@, [op |-> "add", name |-> config.name,
                                     config |-> config, pc |-> "disconnect",
                                     driver |-> r1.connections[config.name],
                                     caller |-> caller])]
       ELSE createAndConnect(r1, config, caller)

\* Faulty variant of removeConnectionResolved, for contrast: the status map
\* is cleared instead of the one entry being deleted.
removeConnectionResolvedClearing(r, f) ==
  [r EXCEPT !.drivers = [@ EXCEPT ![f.driver].connected = FALSE],
            !.connections = MapDelete(@, f.name),
            !.connectionStatuses = EmptyMap,
            !.calls = Resume(@, f)]

\* removeConnection(name) after `await driver.disconnect()` resolved.
removeConnectionResolved(r, f) ==
  [r EXCEPT !.drivers = [@ EXCEPT ![f.driver].connected = FALSE],
            !.connections = MapDelete(@, f.name),
            !.connectionStatuses = MapDelete(@, f.name),
            !.calls = Resume(@, f)]

\* removeConnection(name) after `await driver.disconnect()` rejected: the
\* error is rethrown before the maps are touched.
removeConnectionRejected(r, f) == [r EXCEPT !.calls = Resume(@, f)]

\* Faulty variant of addConnectionCatch, for contrast: the error is rethrown
\* without the status being updated.
addConnectionCatchRethrowOnly(r, f, message) == [r EXCEPT !.calls = Resume(@, f)]

\* The catch block of addConnection.
addConnectionCatch(r, f, message) ==
  [r EXCEPT !.connectionStatuses = MapSet(@, f.name, StatusFailed(f.config, message)),
            !.calls = Resume(@, f)]

\* addConnection after `await createAndConnect(config)` resolved.
addConnectionResolved(r, f) ==
  [r EXCEPT !.drivers = [@ EXCEPT ![f.driver].connected = TRUE],
            !.connections = MapSet(@, f.name, f.driver),
            !.connectionStatuses = MapSet(@, f.name, StatusConnected(f.config)),
            !.calls = Resume(@, f)]

\* addConnection resumed after the replace path's removeConnection.
addConnectionAfterRemove(r, f, ok) ==
  IF ok THEN createAndConnect(removeConnectionResolved(r, f), f.config, f.caller)
        ELSE addConnectionCatch(removeConnectionRejected(r, f), f, DisconnectFailed)

\* addConnection resumed after createAndConnect settled.
addConnectionAfterConnect(r, f, ok) ==
  IF ok THEN addConnectionResolved(r, f)
        ELSE addConnectionCatch(r, f, IF f.driver = NoDriver THEN InvalidConfig
                                                              ELSE ConnectFailed)

\* removeConnection(name) up to its first await, or to its end when the name
\* has no driver (only the status entry is deleted then).
removeConnection(r, name) ==
  IF name \in DOMAIN r.connections
    THEN [r EXCEPT
            !.drivers = CallDisconnect(@, r.connections[name]),
            !.calls = Suspend(@, [op |-> "remove", name |-> name, pc |-> "disconnect",
                                  driver |-> r.connections[name], caller |-> "user"])]
    ELSE [r EXCEPT !.connectionStatuses = MapDelete(@, name)]

\* removeConnection resumed after `await driver.disconnect()` settled; the
\* status entry is deleted only on the path that did not throw.
removeConnectionAfterDisconnect(r, f, ok) ==
  IF ok THEN removeConnectionResolved(r, f) ELSE removeConnectionRejected(r, f)

\* Object.entries(configs).map(async ...): every addConnection runs to its
\* first await before the map returns.
RECURSIVE addAll(_, _, _)
addAll(r, configs, caller) ==
  IF configs = {} THEN r
  ELSE LET c == CHOOSE c \in configs : \A d \in configs : c.name <= d.name
       IN addAll(addConnection(r, c, caller), configs \ {c}, caller)

\* Faulty variant of failedConnections, for contrast: the filter on status.connected is missing.
failedConnectionsUnfiltered(statuses) == DOMAIN statuses

\* retryFailedConnections: the entries with !status.connected.
failedConnections(statuses) == {n \in DOMAIN statuses : ~statuses[n].connected}

\* disconnectAll: disconnect() is invoked on every driver of the map.
RECURSIVE CallDisconnectAll(_, _)
CallDisconnectAll(ds, pending) ==
  IF pending = {} THEN ds
  ELSE LET d == CHOOSE d \in pending : TRUE
       IN CallDisconnectAll(CallDisconnect(ds, d), pending \ {d})

\* Driver d is registered or referenced by a suspended call.
Referenced(d, conns, frames, pending) ==
  \/ \E n \in DOMAIN conns : conns[n] = d
  \/ \E f \in BagToSet(frames) : f.driver = d
  \/ d \in pending

\* ------------------------------------------------------------ tool handlers
\* A connection_name that no configuration holds.
UnknownName == NumToolNames + 1

\* Error messages the handlers capture.
NoDriverMessage == "Failed to establish database connection"
CatalogFailed == "catalog query failed"
QueryFailed == "query failed"

\* The message of the error a rejected addConnection frame throws.
FailureMessage(f) ==
  IF f.pc = "disconnect" THEN DisconnectFailed
  ELSE IF f.driver = NoDriver THEN InvalidConfig ELSE ConnectFailed

\* getConnectionStatus(): the status list without the configs.
getConnectionStatus(statuses) ==
  [n \in DOMAIN statuses |->
     [name |-> statuses[n].name, connected |-> statuses[n].connected,
      type |-> statuses[n].type, error |-> statuses[n].error]]

\* getConfiguredConnectionNames(): the keys of the status map.
getConfiguredConnectionNames(statuses) == DOMAIN statuses

\* handleListDatabases: connectionStatuses.filter(s => s.connected)
activeConnections(statuses) == {n \in DOMAIN statuses : statuses[n].connected}

\* Faulty variant of autoSelect, for contrast: any active connection triggers it.
autoSelectAnyActive(active) == Cardinality(active) >= 1

\* handleListDatabases: activeConnections.length === 1
autoSelect(active) == Cardinality(active) = 1

\* `auto_detected: !args.connection_name`, with the args of the call that
\* builds the result.
autoDetected(args) == args = NoName

\* What a driver's listDatabases() returns: live catalog data of the
\* connection (its contents are the backend's).
Catalog(config) == <<[source |-> "driver", connection |-> config.name]>>

\* Faulty variant of getMockDatabasesForConnection, for contrast: the entry
\* of the configured database is left out.
getMockDatabasesSystemOnly(config) ==
  CASE config.type = "postgresql" ->
         <<[name |-> "postgres"], [name |-> "template0"], [name |-> "template1"]>>
    [] config.type = "mysql" ->
         <<[name |-> "information_schema"], [name |-> "performance_schema"],
           [name |-> "mysql"], [name |-> "sys"]>>
    [] OTHER -> <<>>

\* getMockDatabasesForConnection(config)
getMockDatabasesForConnection(config) ==
  CASE config.type = "postgresql" ->
         <<[name |-> "postgres", owner |-> "postgres"],
           [name |-> "template0", owner |-> "postgres"],
           [name |-> "template1", owner |-> "postgres"],
           [name |-> IF config.database # NoValue THEN config.database ELSE "myapp",
            owner |-> IF config.username # NoValue THEN config.username ELSE "user"]>>
    [] config.type = "mysql" ->
         <<[name |-> "information_schema", type |-> "SYSTEM SCHEMA"],
           [name |-> "performance_schema", type |-> "SYSTEM SCHEMA"],
           [name |-> "mysql", type |-> "SYSTEM SCHEMA"],
           [name |-> "sys", type |-> "SYSTEM SCHEMA"],
           [name |-> IF config.database # NoValue THEN config.database ELSE "myapp",
            type |-> "BASE TABLE"]>>
    [] config.type = "sqlite" ->
         <<[file |-> config.path, size |-> "Unknown (file not accessed)"]>>
    [] OTHER -> <<>>

Suggestions ==
  <<"Use list_connections tool to see all configured connections and their status",
    "Check if database servers are running and accessible",
    "Verify credentials and network connectivity",
    "Use retry_failed_connections tool to attempt reconnection">>

\* handleListDatabases, no connection_name and no active connection.
listNoActive(statuses) ==
  [status |-> "no_active_connections", isError |-> TRUE,
   configured_connections |-> getConfiguredConnectionNames(statuses),
   connection_statuses |-> getConnectionStatus(statuses),
   suggestions |-> Suggestions]

\* "Connection '<name>' not found. Available connections: <keys of settings.databases>"
unknownConnection(name, st) ==
  [status |-> "unknown_connection", isError |-> TRUE, connection |-> name,
   available |-> DOMAIN st]

\* handleListDatabases, the real_data result.
listRealData(config, args) ==
  [status |-> "real_data", isError |-> FALSE, connection |-> config.name,
   databases |-> Catalog(config), auto_detected |-> autoDetected(args)]

\* Faulty variant of listFallback, for contrast: the failure is returned as an error.
listFailureAsError(config, args, message) ==
  [status |-> "error", isError |-> TRUE, connection |-> config.name, error |-> message]

\* handleListDatabases, the catch block of the explicit path.
listFallback(config, args, message) ==
  [status |-> "mock_data_fallback", isError |-> FALSE, connection |-> config.name,
   databases |-> getMockDatabasesForConnection(config), error |-> message,
   note |-> "Could not connect to database, showing mock data. Check your connection configuration.",
   auto_detected |-> autoDetected(args)]

\* Faulty variant of listSummary, for contrast: only the connected ones are listed.
listSummaryConnectedOnly(st, statuses) ==
  [status |-> "summary", isError |-> FALSE,
   total_connections |-> Cardinality(activeConnections(statuses)),
   connected_connections |-> Cardinality(activeConnections(statuses)),
   connections |-> [n \in activeConnections(statuses) \cap DOMAIN st |->
                      [connection_name |-> n, type |-> st[n].type, status |-> "connected"]]]

\* handleListDatabases, the summary of all configured connections.
listSummary(st, statuses) ==
  [status |-> "summary", isError |-> FALSE,
   total_connections |-> Cardinality(DOMAIN st),
   connected_connections |-> Cardinality(activeConnections(statuses)),
   connections |-> [n \in DOMAIN st |->
                      [connection_name |-> n, type |-> st[n].type,
                       status |-> IF n \in DOMAIN statuses /\ statuses[n].connected
                                    THEN "connected" ELSE "configured"]]]

\* Faulty variant of handlerError, for contrast: the result is not flagged.
handlerErrorUnflagged(message) == [status |-> "error", isError |-> FALSE, error |-> message]

\* The outer catch of handleListDatabases and handleListConnections: the
\* text "Error: " and the message, error-flagged.
handlerError(message) == [status |-> "error", isError |-> TRUE, error |-> message]

\* The message of the RangeError of a recursion without end.
CallStackExceeded == "Maximum call stack size exceeded"

\* The connection_name the auto-detection branch hands to its recursive
\* call: the name field of the single active status.
autoDetectedName(statuses) ==
  statuses[CHOOSE n \in activeConnections(statuses) : TRUE].name

\* handleExecuteQuery results.
execMissingName == [status |-> "connection_name is required", isError |-> TRUE]
execMissingQuery == [status |-> "query is required and must be a string", isError |-> TRUE]
execNoDriver(name) ==
  [status |-> "Failed to establish connection", isError |-> TRUE, connection |-> name]
execSuccess(config) == [status |-> "success", isError |-> FALSE, connection |-> config.name]
\* Faulty variant of execError, for contrast: a failure is answered with
\* fallback data instead of an error.
execErrorAsFallback(name, message) ==
  [status |-> "mock_data_fallback", isError |-> FALSE, connection |-> name,
   error |-> message, databases |-> <<>>]

execError(name, message) ==
  [status |-> "error", isError |-> TRUE, connection |-> name, error |-> message]

\* Faulty variant of retryTarget, for contrast: the connected check is missing.
retryTargetIgnoringStatus(statuses, name) ==
  IF name \notin DOMAIN statuses THEN "not_found" ELSE "retry"

\* handleRetryFailedConnections with a connection_name: the status entry is
\* looked up, then its connected flag decides.
retryTarget(statuses, name) ==
  IF name \notin DOMAIN statuses THEN "not_found"
  ELSE IF statuses[name].connected THEN "already_connected" ELSE "retry"

\* handleRetryFailedConnections results.
retryNotFound(name, statuses) ==
  [status |-> "not found in configuration", isError |-> TRUE, connection |-> name,
   available_connections |-> getConfiguredConnectionNames(statuses)]
retryAlreadyConnected(name, statuses) ==
  [status |-> "already connected", isError |-> FALSE,
   connection |-> getConnectionStatus(statuses)[name]]
retryConfigNotFound(name) ==
  [status |-> "Configuration not found", isError |-> TRUE, connection |-> name]
retrySucceeded(config) ==
  [status |-> "connected", isError |-> FALSE, connection |-> config.name]
retryFailed(name, message) ==
  [status |-> "Failed to retry connection", isError |-> TRUE, connection |-> name,
   details |-> message]
\* Faulty variant of retrySummary, for contrast: only the entries that are
\* still failed are reported.
retrySummaryFailedOnly(statuses) ==
  LET failed == [n \in DOMAIN statuses \ activeConnections(statuses) |-> statuses[n]]
  IN [status |-> "Retry operation completed", isError |-> FALSE,
      total_connections |-> Cardinality(DOMAIN failed),
      successful_connections |-> 0,
      failed_connections |-> Cardinality(DOMAIN failed),
      connection_statuses |-> getConnectionStatus(failed)]

retrySummary(statuses) ==
  [status |-> "Retry operation completed", isError |-> FALSE,
   total_connections |-> Cardinality(DOMAIN statuses),
   successful_connections |-> Cardinality(activeConnections(statuses)),
   failed_connections |-> Cardinality(DOMAIN statuses \ activeConnections(statuses)),
   connection_statuses |-> getConnectionStatus(statuses)]

\* handleListConnections: the literal that stands for a configured password.
Masked == "***masked***"

\* Faulty variant of maskPassword, for contrast: the password is passed on.
maskPasswordRaw(password) == password

\* `config.password ? '***masked***' : undefined`: an unset and an empty
\* password are both falsy.
maskPassword(password) == IF password \in {NoValue, ""} THEN NoValue ELSE Masked

\* handleListConnections: status?.connected ? 'connected' : (status ? 'failed' : 'configured')
connectionLabel(statuses, name) ==
  IF name \in DOMAIN statuses /\ statuses[name].connected THEN "connected"
  ELSE IF name \in DOMAIN statuses THEN "failed" ELSE "configured"

\* handleListConnections, one element of `connections`: the error is added
\* for a failed entry that has one, the details by backend type, and the
\* credentials for a network backend when include_credentials is set.
listConnectionEntry(config, statuses, includeCredentials) ==
  LET name == config.name
      failedWithError == /\ name \in DOMAIN statuses
                         /\ ~statuses[name].connected
                         /\ statuses[name].error # NoError
      entry == [key |-> name, name |-> name, type |-> config.type,
                status |-> connectionLabel(statuses, name),
                error |-> IF failedWithError THEN statuses[name].error ELSE NoValue,
                details |-> IF config.type = "sqlite"
                              THEN [path |-> config.path]
                              ELSE [host |-> config.host, database |-> config.database]]
  IN IF config.type # "sqlite" /\ includeCredentials
       THEN entry @@ [credentials |-> [username |-> config.username,
                                       password |-> maskPassword(config.password)]]
       ELSE entry

\* handleListConnections: the summary and one entry per configured database.
listConnections(st, statuses, includeCredentials) ==
  [isError |-> FALSE,
   summary |-> [total_connections |-> Cardinality(DOMAIN st),
                active_connections |-> Cardinality(activeConnections(statuses)),
                failed_connections |->
                  Cardinality(DOMAIN statuses \ activeConnections(statuses))],
   connections |-> [n \in DOMAIN st |->
                      listConnectionEntry(st[n], statuses, includeCredentials)]]

\* The CallTool request handler: the handler's result is awaited and its
\* content alone is returned, { content: result.content }.  (The handlers
\* catch their errors; an unknown tool name is rejected.)
callTool(result) == [content |-> [f \in DOMAIN result \ {"isError"} |-> result[f]]]

\* An MCP tool response is an error response when it carries isError: true.
IsErrorResponse(response) == "isError" \in DOMAIN response /\ response.isError

\* ------------------------------------------------------ status snapshots
\* No status getter has been called.
NoSnapshot == [taken |-> FALSE, detailed |-> FALSE, entries |-> EmptyMap]

\* Faulty variant of ObjectAfterSet, for contrast: the stored status object
\* is updated in place.
ObjectAfterSetInPlace(object, written) == written

\* A status object that a returned array shares with the map, after
\* connectionStatuses.set(name, {...}) stored `written` under its name: set
\* puts a new object literal into the map and leaves the old object as it was.
ObjectAfterSet(object, written) == object

\* What the holder of a returned array sees after the status map went from
\* `old` to `new`.  getDetailedConnectionStatus hands out the map's own status
\* objects (shared); delete and clear drop the map's reference only.
Refresh(s, old, new) ==
  [s EXCEPT !.entries =
     [n \in DOMAIN @ |->
        IF ~@[n].shared THEN @[n]
        ELSE IF n \notin DOMAIN new THEN [@[n] EXCEPT !.shared = FALSE]
        ELSE IF new[n] = old[n] THEN @[n]
        ELSE [@[n] EXCEPT !.value = ObjectAfterSet(@, new[n])]]]

\* -------------------------------------------------------- configuration
\* ConfigManager.settings before a loadConfig has succeeded (null).
NotLoaded == [loaded |-> FALSE]

ConfigNotLoaded == "Configuration not loaded. Call loadConfig() first."

\* ConfigManager.getSettings: the settings, or a ConfigurationError.
getSettings(st) ==
  IF st = NotLoaded THEN [ok |-> FALSE, message |-> ConfigNotLoaded]
                    ELSE [ok |-> TRUE, message |-> NoError]

\* The texts a JSON source can hold: a text that is not JSON, arrays of
\* connection objects (two of them over the same names with other paths, one
\* with a repeated name), and an array whose object has no name.
JsonTexts == {"{", "[]", "[sqlite:a]", "[json_db:a]", "[sqlite:b]",
              "[sqlite:a,json_db:a]", "[json_db:a,json_db:b]", "[:a]"}

JsonObject(name, path) == [type |-> "sqlite", name |-> name, path |-> path, host |-> NoValue]

\* JSON.parse of a text: the array, or a SyntaxError.
JSONparse(text) ==
  CASE text = "[]" -> [ok |-> TRUE, value |-> <<>>]
    [] text = "[sqlite:a]" -> [ok |-> TRUE, value |-> <<JsonObject("sqlite", "./a.db")>>]
    [] text = "[json_db:a]" -> [ok |-> TRUE, value |-> <<JsonObject("json_db", "./a.db")>>]
    [] text = "[sqlite:b]" -> [ok |-> TRUE, value |-> <<JsonObject("sqlite", "./b.db")>>]
    [] text = "[sqlite:a,json_db:a]" ->
         [ok |-> TRUE, value |-> <<JsonObject("sqlite", "./a.db"), JsonObject("json_db", "./a.db")>>]
    [] text = "[json_db:a,json_db:b]" ->
         [ok |-> TRUE, value |-> <<JsonObject("json_db", "./a.db"), JsonObject("json_db", "./b.db")>>]
    [] text = "[:a]" -> [ok |-> TRUE, value |-> <<JsonObject(NoValue, "./a.db")>>]
    [] OTHER -> [ok |-> FALSE, value |-> <<>>]

\* DatabaseConnectionsArraySchema.parse: every object needs a name (a string).
DatabaseConnectionsArraySchemaParse(array) ==
  [ok |-> \A i \in DOMAIN array : array[i].name # NoValue, value |-> array]

\* parseJsonConnections(jsonString): the validated array, or an error.
parseJsonConnections(jsonString) ==
  LET parsed == JSONparse(jsonString)
  IN IF parsed.ok THEN DatabaseConnectionsArraySchemaParse(parsed.value) ELSE parsed

\* loadJsonConnectionsFromFile(filePath): fs.access, readFile, JSON.parse and
\* the schema; file is what lies at the path ("missing": nothing).
loadJsonConnectionsFromFile(file) ==
  IF file = "missing" THEN [ok |-> FALSE, value |-> <<>>]
                      ELSE parseJsonConnections(file)

\* for (const connection of jsonConnections) databases[connection.name] =
\* connection: a later object replaces an earlier one of the same name.
FromConnections(array) ==
  [name \in {array[i].name : i \in DOMAIN array} |->
     array[CHOOSE i \in DOMAIN array :
             /\ array[i].name = name
             /\ \A j \in DOMAIN array : array[j].name = name => j <= i]]

\* A process.env value that an if takes as true: set and not empty.
Truthy(value) == value \notin {NoValue, ""}

\* buildIndividualDatabaseConfigs: one connection per backend whose variable
\* is set, under the fixed names sqlite, postgres and mysql.
buildIndividualDatabaseConfigs(e) ==
  LET names == {n \in {"sqlite"} : Truthy(e.SQLITE_DB_PATH)}
                 \cup {n \in {"postgres"} : Truthy(e.POSTGRES_HOST)}
                 \cup {n \in {"mysql"} : Truthy(e.MYSQL_HOST)}
  IN [n \in names |->
        CASE n = "sqlite" -> [type |-> "sqlite", name |-> "sqlite",
                              path |-> e.SQLITE_DB_PATH, host |-> NoValue]
          [] n = "postgres" -> [type |-> "postgresql", name |-> "postgres",
                                path |-> NoValue, host |-> e.POSTGRES_HOST]
          [] OTHER -> [type |-> "mysql", name |-> "mysql",
                       path |-> NoValue, host |-> e.MYSQL_HOST]]

\* Faulty variant of ObjectAssign, for contrast: a key the target already
\* has keeps the target's value.
ObjectAssignKeepingTarget(target, source) ==
  [k \in DOMAIN target \cup DOMAIN source |->
     IF k \in DOMAIN target THEN target[k] ELSE source[k]]

\* Object.assign(target, source): the source's keys are written over the target.
ObjectAssign(target, source) ==
  [k \in DOMAIN target \cup DOMAIN source |->
     IF k \in DOMAIN source THEN source[k] ELSE target[k]]

FileLoadFailed == "Failed to load DATABASE_CONNECTIONS_FILE"
InvalidConnectionsJson == "Invalid DATABASE_CONNECTIONS JSON"

\* Faulty variant of jsonConnections, for contrast: DATABASE_CONNECTIONS is
\* read first, and the file only without it.
jsonConnectionsVariableFirst(e) ==
  IF Truthy(e.DATABASE_CONNECTIONS)
    THEN LET parsed == parseJsonConnections(e.DATABASE_CONNECTIONS)
         IN [ok |-> parsed.ok, value |-> parsed.value,
             message |-> IF parsed.ok THEN NoError ELSE InvalidConnectionsJson]
    ELSE IF Truthy(e.DATABASE_CONNECTIONS_FILE)
      THEN LET loaded == loadJsonConnectionsFromFile(e.file)
           IN [ok |-> loaded.ok, value |-> loaded.value,
               message |-> IF loaded.ok THEN NoError ELSE FileLoadFailed]
      ELSE [ok |-> TRUE, value |-> <<>>, message |-> NoError]

\* The JSON connections buildDatabaseConfigs reads: from the file when
\* DATABASE_CONNECTIONS_FILE is set, else from DATABASE_CONNECTIONS when that
\* is set, else none.
jsonConnections(e) ==
  IF Truthy(e.DATABASE_CONNECTIONS_FILE)
    THEN LET loaded == loadJsonConnectionsFromFile(e.file)
         IN [ok |-> loaded.ok, value |-> loaded.value,
             message |-> IF loaded.ok THEN NoError ELSE FileLoadFailed]
    ELSE IF Truthy(e.DATABASE_CONNECTIONS)
      THEN LET parsed == parseJsonConnections(e.DATABASE_CONNECTIONS)
           IN [ok |-> parsed.ok, value |-> parsed.value,
               message |-> IF parsed.ok THEN NoError ELSE InvalidConnectionsJson]
      ELSE [ok |-> TRUE, value |-> <<>>, message |-> NoError]

\* buildDatabaseConfigs: the JSON connections by name, then the individual
\* ones assigned over them; an error of the JSON source is thrown.
buildDatabaseConfigs(e) ==
  LET json == jsonConnections(e)
  IN IF json.ok
       THEN [ok |-> TRUE, message |-> NoError,
             databases |-> ObjectAssign(FromConnections(json.value),
                                        buildIndividualDatabaseConfigs(e))]
       ELSE [ok |-> FALSE, message |-> json.message, databases |-> EmptyMap]

\* loadConfig: the databases built from the environment become the settings;
\* every error is rethrown as a ConfigurationError.
loadConfig(e) ==
  LET built == buildDatabaseConfigs(e)
  IN IF built.ok
       THEN [ok |-> TRUE, settings |-> built.databases, message |-> <<>>]
       ELSE [ok |-> FALSE, settings |-> NotLoaded,
             message |-> <<"Configuration validation failed", built.message>>]

\* The environments: each variable unset, empty or set, and the file at the
\* path DATABASE_CONNECTIONS_FILE names.
Envs ==
  [DATABASE_CONNECTIONS_FILE : {NoValue, "", "./connections.json"},
   DATABASE_CONNECTIONS : {NoValue, ""} \cup JsonTexts,
   file : {"missing"} \cup JsonTexts,
   SQLITE_DB_PATH : {NoValue, "", "./individual.db"},
   POSTGRES_HOST : {NoValue, "localhost"},
   MYSQL_HOST : {NoValue, "localhost"}]

\* An environment with none of the variables set.
NoEnv == [DATABASE_CONNECTIONS_FILE |-> NoValue, DATABASE_CONNECTIONS |-> NoValue,
          file |-> "missing", SQLITE_DB_PATH |-> NoValue, POSTGRES_HOST |-> NoValue,
          MYSQL_HOST |-> NoValue]

\* ---------------------------------------------------------- retry helper
\* No retry(fn, maxRetries, baseDelay) call was made.  attempt is the loop
\* variable, calls counts the fn() calls, sleeps lists the delays handed to
\* sleep; the k-th fn() call resolves with k or throws the error k, and
\* lastError 0 is the unassigned variable (undefined).
NoBackoff == [pc |-> "none", maxRetries |-> 0, baseDelay |-> 0, attempt |-> 0,
              calls |-> 0, sleeps |-> <<>>, lastError |-> 0, outcome |-> 0,
              failures |-> <<>>]

\* Math.pow(2, n) for a natural n.
RECURSIVE MathPow2(_)
MathPow2(n) == IF n = 0 THEN 1 ELSE 2 * MathPow2(n - 1)

\* Faulty variant of retryLoop, for contrast: the loop test is attempt <
\* maxRetries.
retryLoopShort(op) ==
  IF op.attempt < op.maxRetries
    THEN [op EXCEPT !.pc = "fn", !.calls = @ + 1]
    ELSE [op EXCEPT !.pc = "rejected", !.outcome = op.lastError]

\* The for loop's test with the loop variable at op.attempt: fn() is called
\* and awaited, or the loop is left and lastError is thrown.
retryLoop(op) ==
  IF op.attempt <= op.maxRetries
    THEN [op EXCEPT !.pc = "fn", !.calls = @ + 1]
    ELSE [op EXCEPT !.pc = "rejected", !.outcome = op.lastError]

\* retry(fn, maxRetries, baseDelay) up to its first await.
retry(maxRetries, baseDelay) ==
  retryLoop([NoBackoff EXCEPT !.maxRetries = maxRetries, !.baseDelay = baseDelay,
                              !.attempt = 1])

\* The awaited fn() settles: its value is returned, or the error is kept and
\* either the loop is left (the last attempt) or sleep(delay) is awaited.
retryAfterFn(op, ok) ==
  IF ok
    THEN [op EXCEPT !.pc = "resolved", !.outcome = op.calls]
    ELSE LET caught == [op EXCEPT !.lastError = op.calls,
                                  !.failures = Append(@, op.calls)]
         IN IF op.attempt = op.maxRetries
              THEN [caught EXCEPT !.pc = "rejected", !.outcome = caught.lastError]
              ELSE [caught EXCEPT !.pc = "sleep",
                                  !.sleeps = Append(@, op.baseDelay * MathPow2(op.attempt - 1))]

\* The awaited sleep is over: attempt++ and the loop test.
retryAfterSleep(op) == retryLoop([op EXCEPT !.attempt = @ + 1])

\* ------------------------------------------------------------- operations
NoInit == [active |-> FALSE, names |-> {}, failed |-> {}, caller |-> "user"]
NoRetry == [active |-> FALSE, queue |-> {}, disconnectedAtStart |-> {},
            attempted |-> <<>>, failures |-> {}, caller |-> "user"]
NoDiscAll == [active |-> FALSE, pending |-> {}, failed |-> {}]
NoTool == [active |-> FALSE, tool |-> "none", args |-> NoName, name |-> NoName,
           pc |-> "none", driver |-> NoDriver]
NoEvent == [op |-> "none", what |-> "none"]

\* The configured databases: every name has one config, fixed for the run
\* (the settings are loaded once); some of them may fail validateConfig.
SettingsOver(names) == {st \in [names -> Configs] : \A n \in names : st[n].name = n}
InitSettings == settings \in SettingsOver(Names)

\* Sets of configs, the values of the Record handed to initializeConnections.
ConfigSets == SUBSET Range(settings)

Init ==
  /\ InitSettings
  /\ connections = EmptyMap
  /\ connectionStatuses = EmptyMap
  /\ drivers = EmptyMap
  /\ calls = EmptyBag
  /\ initOp = NoInit
  /\ retryOp = NoRetry
  /\ discAllOp = NoDiscAll
  /\ toolOp = NoTool
  /\ serial = FALSE
  /\ ev = NoEvent
  /\ attempted = {}
  /\ snapshot = NoSnapshot
  /\ env = NoEnv
  /\ backoffOp = NoBackoff

\* The same program with its callers issuing one manager call at a time.
InitSerial ==
  /\ InitSettings
  /\ connections = EmptyMap
  /\ connectionStatuses = EmptyMap
  /\ drivers = EmptyMap
  /\ calls = EmptyBag
  /\ initOp = NoInit
  /\ retryOp = NoRetry
  /\ discAllOp = NoDiscAll
  /\ toolOp = NoTool
  /\ serial = TRUE
  /\ ev = NoEvent
  /\ attempted = {}
  /\ snapshot = NoSnapshot
  /\ env = NoEnv
  /\ backoffOp = NoBackoff

Children(caller) == {f \in BagToSet(calls) : f.caller = caller}

OpsInFlight ==
  BagCardinality([f \in Children("user") |-> calls[f]]) + (IF initOp.active THEN 1 ELSE 0)
    + (IF retryOp.active /\ retryOp.caller = "user" THEN 1 ELSE 0)
    + (IF discAllOp.active THEN 1 ELSE 0) + (IF toolOp.active THEN 1 ELSE 0)
MayCall == OpsInFlight < (IF serial THEN 1 ELSE MaxOps)

\* The outcome log is kept when calls are issued one at a time.
Event(e) == IF serial THEN e ELSE NoEvent

\* The driver instances kept in the next state: those still referenced (by
\* the registry, a suspended call or the handler awaiting a driver call), and
\* a connected one that this step dropped (it is forgotten one step later).
Collect(ds, conns, frames, pending) ==
  [d \in {d \in DOMAIN ds :
            \/ Referenced(d, conns, frames, pending)
            \/ toolOp.active /\ toolOp.driver = d
            \/ /\ ds[d].connected
               /\ d \in DOMAIN drivers
               /\ Referenced(d, connections, calls, discAllOp.pending)} |-> ds[d]]

\* The projection getConnectionStatus makes of one status object.
statusCopy(status) ==
  [name |-> status.name, connected |-> status.connected, type |-> status.type,
   error |-> status.error]

\* getConnectionStatus() (copies) or getDetailedConnectionStatus() (the
\* map's own objects) is called and its array kept by the caller.
TakeSnapshot(detailed) ==
  /\ ~snapshot.taken
  /\ snapshot' =
       [taken |-> TRUE, detailed |-> detailed,
        entries |-> [n \in DOMAIN connectionStatuses |->
                       LET object == IF detailed THEN connectionStatuses[n]
                                                 ELSE statusCopy(connectionStatuses[n])
                       IN [original |-> object, value |-> object, shared |-> detailed]]]
  /\ UNCHANGED <<settings, env, backoffOp, connections, connectionStatuses, drivers, calls,
                 initOp, retryOp, discAllOp, toolOp, serial, ev, attempted>>

\* With one call at a time the frames and the drivers are bounded by the
\* configured names; the bounds cut the overlapping runs only.
SetReg(r) ==
  /\ serial \/ BagCardinality(r.calls) <= MaxInFlight
  /\ connections' = r.connections
  /\ connectionStatuses' = r.connectionStatuses
  /\ drivers' = Collect(r.drivers, r.connections, r.calls, discAllOp.pending)
  /\ serial \/ Cardinality(DOMAIN drivers') <= MaxDrivers
  /\ calls' = r.calls
  /\ attempted' = r.attempted
  /\ snapshot' = Refresh(snapshot, connectionStatuses, r.connectionStatuses)

\* A caller invokes addConnection(config).
AddConnection(config) ==
  /\ MayCall
  /\ SetReg(addConnection(Reg, config, "user"))
  /\ ev' = Event([op |-> "addConnection", what |-> "called", name |-> config.name,
            caller |-> "user"])
  /\ UNCHANGED <<initOp, retryOp, discAllOp, serial, settings, env, backoffOp, toolOp>>

\* A handler's result reaches its caller.
ToolReturn(result) ==
  /\ ev' = Event([op |-> toolOp.tool, what |-> "returned", args |-> toolOp.args,
                  name |-> toolOp.name, result |-> result,
                  response |-> callTool(result)])
  /\ toolOp' = NoTool

\* The handler goes on to its next await.
ToolAwait(pc, driver) ==
  /\ ev' = Event([op |-> toolOp.tool, what |-> "awaiting", args |-> toolOp.args,
                  name |-> toolOp.name, pc |-> pc])
  /\ toolOp' = [toolOp EXCEPT !.pc = pc, !.driver = driver]

\* A handler resumed after its `await this.connectionManager.addConnection`:
\* list_databases and execute_query read the handle back with getConnection
\* and call the driver; retry_failed_connections returns.
ToolAfterAdd(ok, message) ==
  LET name == toolOp.name
      config == settings[name]
  IN CASE toolOp.tool = "list_databases" ->
            IF ~ok THEN ToolReturn(listFallback(config, name, message))
            ELSE IF name \notin DOMAIN connections'
                   THEN ToolReturn(listFallback(config, name, NoDriverMessage))
                   ELSE ToolAwait("catalog", connections'[name])
       [] toolOp.tool = "execute_query" ->
            IF ~ok THEN ToolReturn(execError(name, message))
            ELSE IF name \notin DOMAIN connections'
                   THEN ToolReturn(execNoDriver(name))
                   ELSE ToolAwait("query", connections'[name])
       [] OTHER ->
            IF ok THEN ToolReturn(retrySucceeded(config))
                  ELSE ToolReturn(retryFailed(name, message))

\* How a settled addConnection reaches its caller: the promise of a direct
\* call resolves or rejects; initializeConnections' wrapper catches and
\* records the failure; retryFailedConnections' loop catches and logs.
AddSettled(f, ok) ==
  /\ IF f.caller = "tool"
       THEN ToolAfterAdd(ok, FailureMessage(f))
       ELSE /\ ev' = Event([op |-> "addConnection",
                            what |-> IF ok THEN "resolved" ELSE "rejected",
                            name |-> f.name, caller |-> f.caller,
                            message |-> IF ok THEN NoError ELSE FailureMessage(f)])
            /\ toolOp' = toolOp
  /\ initOp' = IF f.caller = "init" /\ ~ok
                 THEN [initOp EXCEPT !.failed = @ \cup {f.name}] ELSE initOp
  /\ retryOp' = IF f.caller = "retry" /\ ~ok
                  THEN [retryOp EXCEPT !.failures = @ \cup {f.name}] ELSE retryOp
  /\ UNCHANGED <<discAllOp, serial, settings, env, backoffOp>>

\* `await this.removeConnection(config.name)` inside addConnection settles.
AddAfterRemove(f, ok) ==
  /\ BagIn(f, calls) /\ f.op = "add" /\ f.pc = "disconnect"
  /\ SetReg(addConnectionAfterRemove(Reg, f, ok))
  /\ IF ok
       THEN /\ ev' = Event([op |-> "addConnection", what |-> "replacing", name |-> f.name,
                      caller |-> f.caller])
            /\ UNCHANGED <<initOp, retryOp, discAllOp, serial, settings, env, backoffOp, toolOp>>
       ELSE AddSettled(f, FALSE)

\* `await DatabaseDriverFactory.createAndConnect(config)` settles.
AddAfterConnect(f, ok) ==
  /\ BagIn(f, calls) /\ f.op = "add" /\ f.pc = "connect"
  /\ ok => f.driver # NoDriver
  /\ SetReg(addConnectionAfterConnect(Reg, f, ok))
  /\ AddSettled(f, ok)

\* A caller invokes removeConnection(name).
RemoveConnection(name) ==
  /\ MayCall
  /\ SetReg(removeConnection(Reg, name))
  /\ ev' = Event([op |-> "removeConnection",
            what |-> IF name \in DOMAIN connections THEN "called" ELSE "resolved",
            name |-> name, caller |-> "user", handle |-> name \in DOMAIN connections])
  /\ UNCHANGED <<initOp, retryOp, discAllOp, serial, settings, env, backoffOp, toolOp>>

\* `await driver.disconnect()` of a direct removeConnection settles.
RemoveAfterDisconnect(f, ok) ==
  /\ BagIn(f, calls) /\ f.op = "remove"
  /\ SetReg(removeConnectionAfterDisconnect(Reg, f, ok))
  /\ ev' = Event([op |-> "removeConnection", what |-> IF ok THEN "resolved" ELSE "rejected",
            name |-> f.name, caller |-> "user", handle |-> TRUE])
  /\ UNCHANGED <<initOp, retryOp, discAllOp, serial, settings, env, backoffOp, toolOp>>

\* disconnectAll up to `await Promise.all(disconnectPromises)`.
DisconnectAll ==
  /\ MayCall
  /\ ~discAllOp.active
  /\ discAllOp' = [active |-> TRUE, pending |-> Range(connections), failed |-> {}]
  /\ drivers' = Collect(CallDisconnectAll(drivers, Range(connections)),
                        connections, calls, Range(connections))
  /\ ev' = Event([op |-> "disconnectAll", what |-> "called"])
  /\ UNCHANGED <<connections, connectionStatuses, calls, initOp, retryOp, serial, settings, env, backoffOp, toolOp, attempted, snapshot>>

\* One `await driver.disconnect()` of disconnectAll settles; a rejection is
\* caught and logged.
DisconnectAllSettle(d, ok) ==
  /\ discAllOp.active
  /\ d \in discAllOp.pending
  /\ discAllOp' = [discAllOp EXCEPT !.pending = @ \ {d},
                                    !.failed = IF ok THEN @ ELSE @ \cup {d}]
  /\ drivers' = Collect(IF ok THEN [drivers EXCEPT ![d].connected = FALSE] ELSE drivers,
                        connections, calls, discAllOp.pending \ {d})
  /\ ev' = Event([op |-> "disconnectAll", what |-> "settled"])
  /\ UNCHANGED <<connections, connectionStatuses, calls, initOp, retryOp, serial, settings, env, backoffOp, toolOp, attempted, snapshot>>

\* Faulty variant of disconnectAllOutcome, for contrast: a disconnect error
\* is not caught and rejects Promise.all.
disconnectAllOutcomeUncaught(failed) == IF failed = {} THEN "resolved" ELSE "rejected"

\* Every disconnect promise catches and logs its error, so Promise.all
\* resolves whatever failed.
disconnectAllOutcome(failed) == "resolved"

\* Promise.all settled: once it resolved both maps are cleared.
DisconnectAllFinish ==
  /\ discAllOp.active
  /\ discAllOp.pending = {}
  /\ LET resolved == disconnectAllOutcome(discAllOp.failed) = "resolved"
     IN /\ connections' = IF resolved THEN EmptyMap ELSE connections
        /\ connectionStatuses' = IF resolved THEN EmptyMap ELSE connectionStatuses
        /\ drivers' = Collect(drivers, connections', calls, {})
        /\ snapshot' = Refresh(snapshot, connectionStatuses, connectionStatuses')
  /\ attempted' = attempted
  /\ discAllOp' = NoDiscAll
  /\ ev' = Event([op |-> "disconnectAll", what |-> disconnectAllOutcome(discAllOp.failed),
                  failed |-> discAllOp.failed])
  /\ UNCHANGED <<calls, initOp, retryOp, serial, settings, env, backoffOp, toolOp>>

\* Faulty variant of allSettled, for contrast: the tasks are not awaited.
allSettledUnawaited(pending) == TRUE

\* Promise.allSettled over the per-config tasks: fulfilled once none is pending.
allSettled(pending) == pending = {}

\* Faulty variant of initializeOutcome, for contrast: a task's addConnection error is not caught.
initializeOutcomeUncaught(failed) == IF failed = {} THEN "resolved" ELSE "rejected"

\* Every per-config task catches its addConnection error and returns a
\* result object, so the call resolves whatever failed.
initializeOutcome(failed) == "resolved"

\* initializeConnections(configs) up to `await Promise.allSettled(...)`.
StartInitialize(configs, caller) ==
  /\ ~initOp.active
  /\ SetReg(addAll(Reg, configs, "init"))
  /\ initOp' = [active |-> TRUE, names |-> {c.name : c \in configs}, failed |-> {},
                caller |-> caller]
  /\ UNCHANGED <<retryOp, discAllOp, serial, toolOp>>

InitializeConnections(configs) ==
  /\ MayCall
  /\ StartInitialize(configs, "user")
  /\ ev' = Event([op |-> "initializeConnections", what |-> "called"])
  /\ UNCHANGED <<settings, env, backoffOp>>

\* MCPDatabaseServer.start: loadConfig, then initializeConnections with the
\* configured databases; a loadConfig error is rethrown.  built: the settings
\* loadConfig builds when it succeeds.
Start(built, loaded) ==
  /\ MayCall
  /\ IF loaded
       THEN /\ StartInitialize(Range(built), "start")
            /\ settings' = built
            /\ ev' = Event([op |-> "start", what |-> "called"])
            /\ UNCHANGED <<env, backoffOp>>
       ELSE /\ ev' = Event([op |-> "start", what |-> "rejected", cause |-> "loadConfig"])
            /\ UNCHANGED <<connections, connectionStatuses, drivers, calls,
                           initOp, retryOp, discAllOp, serial, settings, env, backoffOp, toolOp, attempted, snapshot>>

\* initializeConnections settles.  In start, server.connect(transport)
\* follows a resolved call, and a rejected one is rethrown.
InitializeFinish ==
  /\ initOp.active
  /\ allSettled(Children("init"))
  /\ initOp' = NoInit
  /\ ev' = Event([op |-> "initializeConnections", what |-> initializeOutcome(initOp.failed),
            names |-> initOp.names, failed |-> initOp.failed, caller |-> initOp.caller,
            start |-> IF initOp.caller # "start" THEN "none"
                      ELSE IF initializeOutcome(initOp.failed) = "resolved"
                             THEN "transport connected" ELSE "rejected"])
  /\ UNCHANGED <<connections, connectionStatuses, drivers, calls, retryOp,
                 discAllOp, serial, settings, env, backoffOp, toolOp, attempted, snapshot>>

\* The body of retryFailedConnections' for loop: the next snapshot entry is
\* handed to addConnection with its stored config.  Map iteration order is
\* left open: any entry of the snapshot may come next.
RetryAttempt(op, config) ==
  /\ SetReg(addConnection(Reg, config, "retry"))
  /\ retryOp' = [op EXCEPT !.queue = @ \ {config},
                           !.attempted = Append(@, config.name)]
  /\ ev' = Event([op |-> "retryFailedConnections", what |-> "attempt", name |-> config.name])

\* Faulty variant of retryRemaining, for contrast: a failed attempt ends the loop.
retryRemainingUntilFailure(queue, failures) == IF failures = {} THEN queue ELSE {}

\* What the loop still has to do after an attempt settled: the catch block
\* only logs, so the rest of the snapshot is always processed.
retryRemaining(queue, failures) == queue

\* The loop catches every addConnection error, so the call resolves.
retryOutcome(failures) == "resolved"

\* The result handleRetryFailedConnections builds without a connection_name:
\* the summary of the refreshed status list, or its outer catch's error.
retryAllResult(op) ==
  IF retryOutcome(op.failures) = "resolved" THEN retrySummary(connectionStatuses)
                                            ELSE retryFailed(NoName, ConnectFailed)

\* retryFailedConnections resolves (or rejects) towards its caller: a direct
\* caller, or handleRetryFailedConnections, which then builds its summary
\* from the refreshed status list (its outer catch reports a rejection).
RetrySettle(op) ==
  IF op.caller = "tool"
    THEN /\ ev' = Event([op |-> "retry_failed_connections", what |-> "returned",
                        args |-> NoName, name |-> NoName, run |-> op,
                        result |-> retryAllResult(op),
                        response |-> callTool(retryAllResult(op))])
         /\ toolOp' = NoTool
    ELSE /\ ev' = Event([op |-> "retryFailedConnections",
                        what |-> retryOutcome(op.failures), run |-> op])
         /\ toolOp' = toolOp

\* retryFailedConnections(): snapshot of the failed entries, early return
\* when there is none, otherwise the first loop iteration.
StartRetry(caller) ==
  /\ ~retryOp.active
  /\ LET failed == failedConnections(connectionStatuses)
         op == [active |-> TRUE,
                queue |-> {connectionStatuses[n].config : n \in failed},
                disconnectedAtStart |->
                  {n \in DOMAIN connectionStatuses : ~connectionStatuses[n].connected},
                attempted |-> <<>>, failures |-> {}, caller |-> caller]
     IN IF failed = {}
          THEN /\ RetrySettle(op)
               /\ UNCHANGED <<connections, connectionStatuses, drivers, calls, retryOp, attempted, snapshot>>
          ELSE /\ \E config \in op.queue : RetryAttempt(op, config)
               /\ toolOp' = IF caller = "tool"
                              THEN [active |-> TRUE, tool |-> "retry_failed_connections",
                                    args |-> NoName, name |-> NoName, pc |-> "retry",
                                    driver |-> NoDriver]
                              ELSE toolOp
  /\ UNCHANGED <<initOp, discAllOp, serial, settings, env, backoffOp>>

\* A caller invokes retryFailedConnections().
RetryFailedConnections ==
  /\ MayCall
  /\ StartRetry("user")

\* The loop resumes after `await this.addConnection(status.config)` settled.
RetryNext ==
  /\ retryOp.active
  /\ Children("retry") = {}
  /\ LET queue == retryRemaining(retryOp.queue, retryOp.failures)
     IN IF queue = {}
          THEN /\ retryOp' = NoRetry
               /\ RetrySettle(retryOp)
               /\ UNCHANGED <<connections, connectionStatuses, drivers, calls, attempted, snapshot>>
          ELSE /\ \E config \in queue : RetryAttempt(retryOp, config)
               /\ toolOp' = toolOp
  /\ UNCHANGED <<initOp, discAllOp, serial, settings, env, backoffOp>>

\* A handler is invoked and returns without awaiting, or runs to its first await.
InvokeReturn(tool, args, name, result) ==
  /\ ev' = Event([op |-> tool, what |-> "returned", args |-> args, name |-> name,
                  result |-> result, response |-> callTool(result)])
  /\ toolOp' = toolOp
  /\ UNCHANGED <<connections, connectionStatuses, drivers, calls, attempted, snapshot>>

InvokeAwait(tool, args, name, pc, driver) ==
  /\ ev' = Event([op |-> tool, what |-> "awaiting", args |-> args, name |-> name,
                  pc |-> pc])
  /\ toolOp' = [active |-> TRUE, tool |-> tool, args |-> args, name |-> name,
                pc |-> pc, driver |-> driver]

\* Faulty variant of GetOrCreate, for contrast: addConnection is awaited
\* even when a driver is registered.
GetOrCreateAlwaysAdding(tool, args, name, pc) ==
  /\ SetReg(addConnection(Reg, settings[name], "tool"))
  /\ InvokeAwait(tool, args, name, "connect", NoDriver)

\* "Get or create database connection": the registered driver is used, or
\* addConnection is awaited with the configured config.
GetOrCreate(tool, args, name, pc) ==
  IF name \in DOMAIN connections
    THEN /\ InvokeAwait(tool, args, name, pc, connections[name])
         /\ UNCHANGED <<connections, connectionStatuses, drivers, calls, attempted, snapshot>>
    ELSE /\ SetReg(addConnection(Reg, settings[name], "tool"))
         /\ InvokeAwait(tool, args, name, "connect", NoDriver)

\* handleListDatabases(args) up to its first await.  Without a
\* connection_name and with exactly one active connection the handler calls
\* itself with that connection's name; were that name empty, the call would
\* take the same branch again and again until the RangeError of the call
\* stack, which the catch block reports.
HandleListDatabases(args) ==
  /\ MayCall
  /\ ~toolOp.active
  /\ LET active == activeConnections(connectionStatuses)
         selected == args = NoName /\ autoSelect(active)
         name == IF selected THEN autoDetectedName(connectionStatuses) ELSE args
     IN IF ~getSettings(settings).ok
          THEN InvokeReturn("list_databases", args, args,
                            handlerError(getSettings(settings).message))
        ELSE IF selected /\ name = NoName
          THEN InvokeReturn("list_databases", args, name, handlerError(CallStackExceeded))
        ELSE IF name = NoName
          THEN InvokeReturn("list_databases", args, name,
                            IF active = {} THEN listNoActive(connectionStatuses)
                                           ELSE listSummary(settings, connectionStatuses))
          ELSE IF name \notin DOMAIN settings
                 THEN InvokeReturn("list_databases", args, name,
                                   unknownConnection(name, settings))
                 ELSE GetOrCreate("list_databases", args, name, "catalog")
  /\ UNCHANGED <<initOp, retryOp, discAllOp, serial, settings, env, backoffOp>>

\* handleExecuteQuery(args) up to its first await; queryOk: args.query is a
\* non-empty string.
HandleExecuteQuery(args, queryOk) ==
  /\ MayCall
  /\ ~toolOp.active
  /\ IF args = NoName
       THEN InvokeReturn("execute_query", args, args, execMissingName)
       ELSE IF ~queryOk
              THEN InvokeReturn("execute_query", args, args, execMissingQuery)
              ELSE IF ~getSettings(settings).ok
                     THEN InvokeReturn("execute_query", args, args,
                                       execError(args, getSettings(settings).message))
              ELSE IF args \notin DOMAIN settings
                     THEN InvokeReturn("execute_query", args, args,
                                       unknownConnection(args, settings))
                     ELSE GetOrCreate("execute_query", args, args, "query")
  /\ UNCHANGED <<initOp, retryOp, discAllOp, serial, settings, env, backoffOp>>

\* handleRetryFailedConnections(args) up to its first await.
HandleRetryFailedConnections(args) ==
  /\ MayCall
  /\ ~toolOp.active
  /\ IF args = NoName
       THEN StartRetry("tool")
       ELSE /\ CASE retryTarget(connectionStatuses, args) = "not_found" ->
                      InvokeReturn("retry_failed_connections", args, args,
                                   retryNotFound(args, connectionStatuses))
                 [] retryTarget(connectionStatuses, args) = "already_connected" ->
                      InvokeReturn("retry_failed_connections", args, args,
                                   retryAlreadyConnected(args, connectionStatuses))
                 [] OTHER ->
                      IF ~getSettings(settings).ok
                        THEN InvokeReturn("retry_failed_connections", args, args,
                                          retryFailed(NoName, getSettings(settings).message))
                      ELSE IF args \notin DOMAIN settings
                        THEN InvokeReturn("retry_failed_connections", args, args,
                                          retryConfigNotFound(args))
                        ELSE /\ SetReg(addConnection(Reg, settings[args], "tool"))
                             /\ InvokeAwait("retry_failed_connections", args, args,
                                            "connect", NoDriver)
            /\ UNCHANGED <<initOp, retryOp, discAllOp, serial, settings, env, backoffOp>>

\* handleListConnections(args): it awaits nothing.
HandleListConnections(includeCredentials) ==
  /\ MayCall
  /\ ~toolOp.active
  /\ InvokeReturn("list_connections", includeCredentials, NoName,
                  IF getSettings(settings).ok
                    THEN listConnections(settings, connectionStatuses, includeCredentials)
                    ELSE handlerError(getSettings(settings).message))
  /\ UNCHANGED <<initOp, retryOp, discAllOp, serial, settings, env, backoffOp, attempted, snapshot>>

\* The driver call a handler awaits (listDatabases, executeQuery) settles; it
\* can only succeed on a driver that is connected.
ToolSettle(ok) ==
  /\ toolOp.active
  /\ toolOp.pc \in {"catalog", "query"}
  /\ ok => (toolOp.driver \in DOMAIN drivers /\ drivers[toolOp.driver].connected)
  /\ LET name == toolOp.name
         config == settings[name]
     IN IF toolOp.tool = "list_databases"
          THEN ToolReturn(IF ok THEN listRealData(config, name)
                                ELSE listFallback(config, name, CatalogFailed))
          ELSE ToolReturn(IF ok THEN execSuccess(config)
                                ELSE execError(name, QueryFailed))
  /\ UNCHANGED <<connections, connectionStatuses, drivers, calls, initOp, retryOp,
                 discAllOp, serial, settings, env, backoffOp, attempted, snapshot>>

Next ==
  \/ \E config \in Range(settings) : AddConnection(config)
  \/ \E f \in BagToSet(calls), ok \in BOOLEAN : AddAfterRemove(f, ok)
  \/ \E f \in BagToSet(calls), ok \in BOOLEAN : AddAfterConnect(f, ok)
  \/ \E name \in DOMAIN settings : RemoveConnection(name)
  \/ \E f \in BagToSet(calls), ok \in BOOLEAN : RemoveAfterDisconnect(f, ok)
  \/ DisconnectAll
  \/ \E d \in discAllOp.pending, ok \in BOOLEAN : DisconnectAllSettle(d, ok)
  \/ DisconnectAllFinish
  \/ \E configs \in ConfigSets : InitializeConnections(configs)
  \/ \E loaded \in BOOLEAN : Start(settings, loaded)
  \/ InitializeFinish
  \/ RetryFailedConnections
  \/ RetryNext

Spec == Init /\ [][Next]_vars
SpecSerial == InitSerial /\ [][Next]_vars

\* MCPDatabaseServer with a database of each backend type configured, its
\* calls issued one at a time: start, the tool handlers (which the unit
\* tests also invoke on a server that was never started) and the
\* disconnectAll of stop.
ToolArgs == ToolNames \cup {NoName, UnknownName}

\* What loadConfig can build: the environment is fixed, so a later loadConfig
\* builds the settings again that an earlier one built.
Loadable == IF settings = NotLoaded THEN SettingsOver(ToolNames) ELSE {settings}

InitTools ==
  /\ settings \in SettingsOver(ToolNames)
  /\ connections = EmptyMap
  /\ connectionStatuses = EmptyMap
  /\ drivers = EmptyMap
  /\ calls = EmptyBag
  /\ initOp = NoInit
  /\ retryOp = NoRetry
  /\ discAllOp = NoDiscAll
  /\ toolOp = NoTool
  /\ serial = TRUE
  /\ ev = NoEvent
  /\ attempted = {}
  /\ snapshot = NoSnapshot
  /\ env = NoEnv
  /\ backoffOp = NoBackoff

NextTools ==
  \/ \E built \in Loadable, loaded \in BOOLEAN : Start(built, loaded)
  \/ \E f \in BagToSet(calls), ok \in BOOLEAN : AddAfterRemove(f, ok)
  \/ \E f \in BagToSet(calls), ok \in BOOLEAN : AddAfterConnect(f, ok)
  \/ InitializeFinish
  \/ RetryNext
  \/ DisconnectAll
  \/ \E d \in discAllOp.pending, ok \in BOOLEAN : DisconnectAllSettle(d, ok)
  \/ DisconnectAllFinish
  \/ \E args \in ToolArgs : HandleListDatabases(args)
  \/ \E args \in ToolArgs, queryOk \in BOOLEAN : HandleExecuteQuery(args, queryOk)
  \/ \E args \in ToolArgs : HandleRetryFailedConnections(args)
  \/ \E includeCredentials \in BOOLEAN : HandleListConnections(includeCredentials)
  \/ \E ok \in BOOLEAN : ToolSettle(ok)

SpecTools == InitTools /\ [][NextTools]_vars

\* The same server from its construction, before any loadConfig: the
\* handlers can be called while getSettings still throws, and start loads
\* the configuration.
InitUnloaded ==
  /\ settings = NotLoaded
  /\ connections = EmptyMap
  /\ connectionStatuses = EmptyMap
  /\ drivers = EmptyMap
  /\ calls = EmptyBag
  /\ initOp = NoInit
  /\ retryOp = NoRetry
  /\ discAllOp = NoDiscAll
  /\ toolOp = NoTool
  /\ serial = TRUE
  /\ ev = NoEvent
  /\ attempted = {}
  /\ snapshot = NoSnapshot
  /\ env = NoEnv
  /\ backoffOp = NoBackoff

SpecUnloaded == InitUnloaded /\ [][NextTools]_vars

\* The manager, its calls issued one at a time, with a caller that takes a
\* status list at any moment (also between the awaits of a call in flight)
\* and keeps it.
NextSnapshot ==
  \/ Next
  \/ \E detailed \in BOOLEAN : TakeSnapshot(detailed)

SpecSnapshot == InitSerial /\ [][NextSnapshot]_vars

\* The same server with passwords configured for the network backends,
\* asked for its connections: start, stop's disconnectAll and
\* list_connections, one call at a time.
Passwords == {NoValue, "", "hunter2"}
WithPasswords(st, passwords) ==
  [n \in DOMAIN st |-> IF st[n].type = "sqlite" THEN st[n]
                       ELSE [st[n] EXCEPT !.password = passwords[n]]]

InitConnections ==
  /\ \E st \in SettingsOver(ToolNames), passwords \in [ToolNames -> Passwords] :
        /\ \A n \in ToolNames : st[n].type = "sqlite" => passwords[n] = NoValue
        /\ settings = WithPasswords(st, passwords)
  /\ connections = EmptyMap
  /\ connectionStatuses = EmptyMap
  /\ drivers = EmptyMap
  /\ calls = EmptyBag
  /\ initOp = NoInit
  /\ retryOp = NoRetry
  /\ discAllOp = NoDiscAll
  /\ toolOp = NoTool
  /\ serial = TRUE
  /\ ev = NoEvent
  /\ attempted = {}
  /\ snapshot = NoSnapshot
  /\ env = NoEnv
  /\ backoffOp = NoBackoff

NextConnections ==
  \/ \E loaded \in BOOLEAN : Start(settings, loaded)
  \/ \E f \in BagToSet(calls), ok \in BOOLEAN : AddAfterRemove(f, ok)
  \/ \E f \in BagToSet(calls), ok \in BOOLEAN : AddAfterConnect(f, ok)
  \/ InitializeFinish
  \/ DisconnectAll
  \/ \E d \in discAllOp.pending, ok \in BOOLEAN : DisconnectAllSettle(d, ok)
  \/ DisconnectAllFinish
  \/ \E includeCredentials \in BOOLEAN : HandleListConnections(includeCredentials)

SpecConnections == InitConnections /\ [][NextConnections]_vars

\* ConfigManager with the environment it reads: loadConfig and getSettings.
InitConfig ==
  /\ env \in Envs
  /\ settings = NotLoaded
  /\ connections = EmptyMap
  /\ connectionStatuses = EmptyMap
  /\ drivers = EmptyMap
  /\ calls = EmptyBag
  /\ initOp = NoInit
  /\ retryOp = NoRetry
  /\ discAllOp = NoDiscAll
  /\ toolOp = NoTool
  /\ serial = TRUE
  /\ ev = NoEvent
  /\ attempted = {}
  /\ snapshot = NoSnapshot
  /\ backoffOp = NoBackoff

\* loadConfig(): this.settings is assigned when the configuration was built
\* and validated.
LoadConfig ==
  /\ ev.op # "loadConfig"
  /\ LET loaded == loadConfig(env)
     IN /\ settings' = IF loaded.ok THEN loaded.settings ELSE settings
        /\ ev' = Event([op |-> "loadConfig",
                        what |-> IF loaded.ok THEN "resolved" ELSE "rejected",
                        message |-> loaded.message])
  /\ UNCHANGED <<env, backoffOp, connections, connectionStatuses, drivers, calls,
                 initOp, retryOp, discAllOp, toolOp, serial, attempted, snapshot>>

\* getSettings(): returns this.settings or throws.
GetSettings ==
  /\ ev.op # "getSettings"
  /\ ev' = Event([op |-> "getSettings",
                  what |-> IF getSettings(settings).ok THEN "returned" ELSE "threw",
                  message |-> <<getSettings(settings).message>>])
  /\ UNCHANGED <<settings, env, backoffOp, connections, connectionStatuses, drivers,
                 calls, initOp, retryOp, discAllOp, toolOp, serial, attempted, snapshot>>

NextConfig == LoadConfig \/ GetSettings

SpecConfig == InitConfig /\ [][NextConfig]_vars

\* The retry helper on its own: the arguments of one call, then the call.
BaseDelays == {0, 1, 3, 1000}
BackoffArgs ==
  {[NoBackoff EXCEPT !.pc = "args", !.maxRetries = m, !.baseDelay = d] :
     m \in 0..MaxRetries, d \in BaseDelays}

InitRetry ==
  /\ backoffOp \in BackoffArgs
  /\ settings = NotLoaded
  /\ env = NoEnv
  /\ connections = EmptyMap
  /\ connectionStatuses = EmptyMap
  /\ drivers = EmptyMap
  /\ calls = EmptyBag
  /\ initOp = NoInit
  /\ retryOp = NoRetry
  /\ discAllOp = NoDiscAll
  /\ toolOp = NoTool
  /\ serial = TRUE
  /\ ev = NoEvent
  /\ attempted = {}
  /\ snapshot = NoSnapshot

RetryUnchanged ==
  UNCHANGED <<settings, env, connections, connectionStatuses, drivers, calls, initOp,
              retryOp, discAllOp, toolOp, serial, ev, attempted, snapshot>>

\* retry(fn, maxRetries, baseDelay) is called.
Retry ==
  /\ backoffOp.pc = "args"
  /\ backoffOp' = retry(backoffOp.maxRetries, backoffOp.baseDelay)
  /\ RetryUnchanged

\* The fn() call that retry awaits resolves or rejects.
RetryAfterFn(ok) ==
  /\ backoffOp.pc = "fn"
  /\ backoffOp' = retryAfterFn(backoffOp, ok)
  /\ RetryUnchanged

\* The timer of sleep(delay) fires.
RetryAfterSleep ==
  /\ backoffOp.pc = "sleep"
  /\ backoffOp' = retryAfterSleep(backoffOp)
  /\ RetryUnchanged

NextRetry == Retry \/ (\E ok \in BOOLEAN : RetryAfterFn(ok)) \/ RetryAfterSleep

SpecRetry == InitRetry /\ [][NextRetry]_vars

\* The catalog and query handlers overlapping the manager calls: a handler is
\* suspended at its awaits while addConnection, removeConnection,
\* retryFailedConnections and disconnectAll calls run.
OverlapArgs == Names \cup {NoName, UnknownName}

NextOverlap ==
  \/ \E config \in Range(settings) : AddConnection(config)
  \/ \E f \in BagToSet(calls), ok \in BOOLEAN : AddAfterRemove(f, ok)
  \/ \E f \in BagToSet(calls), ok \in BOOLEAN : AddAfterConnect(f, ok)
  \/ \E name \in DOMAIN settings : RemoveConnection(name)
  \/ \E f \in BagToSet(calls), ok \in BOOLEAN : RemoveAfterDisconnect(f, ok)
  \/ DisconnectAll
  \/ \E d \in discAllOp.pending, ok \in BOOLEAN : DisconnectAllSettle(d, ok)
  \/ DisconnectAllFinish
  \/ RetryFailedConnections
  \/ RetryNext
  \/ \E args \in OverlapArgs : HandleListDatabases(args)
  \/ \E args \in OverlapArgs, queryOk \in BOOLEAN : HandleExecuteQuery(args, queryOk)
  \/ \E ok \in BOOLEAN : ToolSettle(ok)

SpecOverlap == Init /\ [][NextOverlap]_vars

\* handleListDatabases on a server whose configuration also holds a
\* connection with an empty name (the JSON schema accepts any string): start
\* connects what it can, then catalog requests with and without a name are
\* served one at a time.  Every call the handler awaits settles.
AutoNames == {NoName} \cup Names

InitAutoDetect ==
  /\ settings \in SettingsOver(AutoNames)
  /\ connections = EmptyMap
  /\ connectionStatuses = EmptyMap
  /\ drivers = EmptyMap
  /\ calls = EmptyBag
  /\ initOp = NoInit
  /\ retryOp = NoRetry
  /\ discAllOp = NoDiscAll
  /\ toolOp = NoTool
  /\ serial = TRUE
  /\ ev = NoEvent
  /\ attempted = {}
  /\ snapshot = NoSnapshot
  /\ env = NoEnv
  /\ backoffOp = NoBackoff

NextAutoDetect ==
  \/ \E loaded \in BOOLEAN : Start(settings, loaded)
  \/ \E f \in BagToSet(calls), ok \in BOOLEAN : AddAfterRemove(f, ok)
  \/ \E f \in BagToSet(calls), ok \in BOOLEAN : AddAfterConnect(f, ok)
  \/ InitializeFinish
  \/ \E args \in AutoNames \cup {UnknownName} : HandleListDatabases(args)
  \/ \E ok \in BOOLEAN : ToolSettle(ok)

SpecAutoDetect ==
  /\ InitAutoDetect /\ [][NextAutoDetect]_vars
  /\ WF_vars(\E f \in BagToSet(calls), ok \in BOOLEAN : AddAfterConnect(f, ok))
  /\ WF_vars(\E ok \in BOOLEAN : ToolSettle(ok))

\* ------------------------------------------------------------------ claims
StatusSettled(st) == st.connected \/ st.error # NoError
InitializeSettled ==
  ev.op = "initializeConnections" /\ ev.what \in {"resolved", "rejected"}
RetrySettled ==
  ev.op = "retryFailedConnections" /\ ev.what \in {"resolved", "rejected"}
Elements(seq) == {seq[i] : i \in 1..Len(seq)}

\* C1: in every reachable state, every name with a driver in the live-handle
\* map has a status entry with connected = TRUE (stated as claimed; the code
\* breaks it on the replace path of addConnection).
C1_LiveHandleImpliesConnected ==
  \A n \in DOMAIN connections :
    n \in DOMAIN connectionStatuses /\ connectionStatuses[n].connected

\* C2: when initializeConnections resolves, every supplied name has a status
\* entry, and the entry is connected iff getConnection(name) returns a driver
\* (stated as claimed; broken when a supplied name had a live handle whose
\* disconnect fails).
C2_InitializePostcondition ==
  (InitializeSettled /\ ev.what = "resolved") =>
    \A n \in ev.names :
      /\ n \in DOMAIN connectionStatuses
      /\ connectionStatuses[n].connected <=> n \in DOMAIN connections

\* C3: never two driver instances of one name that are both connected and
\* have not had disconnect() called (stated as claimed; two overlapping
\* addConnection calls both connect).
C3_NoTwoLiveHandles ==
  \A d1 \in DOMAIN drivers, d2 \in DOMAIN drivers :
    (d1 # d2 /\ drivers[d1].name = drivers[d2].name) =>
      ~(/\ drivers[d1].connected /\ ~drivers[d1].disconnectCalled
        /\ drivers[d2].connected /\ ~drivers[d2].disconnectCalled)

\* C4: a connected driver is either the registered handle of its name or has
\* had disconnect() called on it (stated as claimed; overlapping calls
\* overwrite or clear a handle that nobody disconnected).
C4_NoDropWithoutDisconnect ==
  \A d \in DOMAIN drivers :
    drivers[d].connected =>
      \/ drivers[d].disconnectCalled
      \/ \E n \in DOMAIN connections : connections[n] = d

\* C5: a removeConnection(name) that reports a disconnect error has removed
\* the name's status entry all the same (stated as claimed; the code rethrows
\* before the delete).
C5_RemoveDeletesStatusOnDisconnectError ==
  (ev.op = "removeConnection" /\ ev.what = "rejected") =>
    ev.name \notin DOMAIN connectionStatuses

\* C6: a removeConnection(name) issued right after a removeConnection(name)
\* settled does not throw, calls no disconnect, leaves the registry as it was
\* and the name absent from the status map (stated as claimed; after a failed
\* first call the second one disconnects again).
C6_SecondRemoveIsNoOp ==
  [][(/\ ev.op = "removeConnection" /\ ev.what \in {"resolved", "rejected"}
      /\ ev'.op = "removeConnection" /\ ev'.name = ev.name)
     => (/\ ev'.what = "resolved"
         /\ calls' = calls
         /\ connections' = connections
         /\ connectionStatuses' = connectionStatuses
         /\ ev.name \notin DOMAIN connectionStatuses')]_vars

\* C7: initializeConnections never rejects, whatever subset of the configs
\* failed validation or connect: when it settles it has resolved, every
\* supplied name has its attempt recorded, every failed name is
\* connected = FALSE with an error, and start goes on to connect the transport.
C7_InitializeNeverRejects ==
  InitializeSettled =>
    /\ ev.what = "resolved"
    /\ \A n \in ev.names : n \in DOMAIN connectionStatuses
    /\ \A n \in ev.failed :
         /\ n \in DOMAIN connectionStatuses
         /\ ~connectionStatuses[n].connected
         /\ connectionStatuses[n].error # NoError
    /\ ev.caller = "start" => ev.start = "transport connected"

\* C7 witness: start's initializeConnections settled with every configured
\* database failed.
C7_Witness ==
  InitializeSettled /\ ev.caller = "start" /\ ev.failed = Names

\* C8: initializeConnections resolves, and start connects the transport, only
\* when every per-config addConnection has settled: no task is suspended and
\* no supplied name is left in the attempting state.
C8_InitializeResolvesAfterAllSettled ==
  (InitializeSettled /\ (ev.what = "resolved" \/ ev.start = "transport connected")) =>
    /\ Children("init") = {}
    /\ \A n \in ev.names :
         n \in DOMAIN connectionStatuses /\ StatusSettled(connectionStatuses[n])

\* C8 witness: start's call resolved after one database connected and
\* another failed.
C8_Witness ==
  /\ InitializeSettled /\ ev.start = "transport connected"
  /\ ev.failed # {} /\ ev.failed # ev.names

\* C9: retryFailedConnections() calls addConnection exactly once for each
\* entry that was connected = FALSE when it started and for no other entry,
\* no step of it changes an entry that is connected = TRUE (status, handle and
\* driver stay as they are), and when it resolves nothing of it is left running.
C9_RetryOnlyDisconnectedOnce ==
  /\ [](RetrySettled =>
          /\ Len(ev.run.attempted) = Cardinality(ev.run.disconnectedAtStart)
          /\ Elements(ev.run.attempted) = ev.run.disconnectedAtStart
          /\ ~retryOp.active /\ Children("retry") = {})
  /\ [][(retryOp.active \/ retryOp'.active) =>
          \A n \in DOMAIN connectionStatuses :
            connectionStatuses[n].connected =>
              /\ n \in DOMAIN connectionStatuses'
              /\ connectionStatuses'[n] = connectionStatuses[n]
              /\ n \in DOMAIN connections <=> n \in DOMAIN connections'
              /\ n \in DOMAIN connections =>
                   /\ connections'[n] = connections[n]
                   /\ drivers'[connections[n]] = drivers[connections[n]]]_vars

\* C9 witness: a retry resolved that had a failed entry to retry and a
\* connected entry to leave alone.
C9_Witness ==
  /\ RetrySettled /\ ev.run.attempted # <<>>
  /\ \E n \in DOMAIN connectionStatuses :
       n \notin ev.run.disconnectedAtStart /\ connectionStatuses[n].connected

\* C10: in retryFailedConnections a failed retry does not stop the remaining
\* ones and does not reject the call: when it settles it has resolved, every
\* failed entry of the snapshot was attempted, and each failure is recorded in
\* that name's status.
C10_RetryFailuresIndependent ==
  RetrySettled =>
    /\ ev.what = "resolved"
    /\ ev.run.disconnectedAtStart \subseteq Elements(ev.run.attempted)
    /\ \A n \in ev.run.failures :
         /\ n \in DOMAIN connectionStatuses
         /\ ~connectionStatuses[n].connected
         /\ connectionStatuses[n].error # NoError

\* C10 witness: the first retry of the loop failed and a second one ran.
C10_Witness ==
  /\ RetrySettled /\ Len(ev.run.attempted) >= 2
  /\ ev.run.attempted[1] \in ev.run.failures

\* A handler returned this step or earlier, and nothing ran since.
ToolReturned(tool) == ev.op = tool /\ ev.what = "returned"
RegistryUnchanged ==
  /\ connections' = connections /\ connectionStatuses' = connectionStatuses
  /\ drivers' = drivers /\ calls' = calls

\* C11: handleRetryFailedConnections with a connection_name.  A name with no
\* registry entry gives an error result that lists the available
\* connections, and nothing is attempted; an entry that is connected gives a
\* success result and the registry is untouched; any other entry gets
\* exactly one addConnection, and when that fails the result is an error
\* carrying the message of the failure.
C11_RetryTargetDispatch ==
  /\ [][(/\ ~toolOp.active
         /\ ev'.op = "retry_failed_connections" /\ ev'.args # NoName)
        => CASE ev'.args \notin DOMAIN connectionStatuses ->
                  /\ ev'.what = "returned" /\ ev'.result.isError
                  /\ ev'.result.available_connections = DOMAIN connectionStatuses
                  /\ RegistryUnchanged
             [] OTHER ->
                  IF connectionStatuses[ev'.args].connected
                    THEN /\ ev'.what = "returned" /\ ~ev'.result.isError
                         /\ RegistryUnchanged
                    ELSE /\ ev'.what = "awaiting"
                         /\ BagCardinality(calls') = BagCardinality(calls) + 1
                         /\ \E f \in BagToSet(calls') :
                              f.op = "add" /\ f.name = ev'.args /\ f.caller = "tool"]_vars
  /\ []((ToolReturned("retry_failed_connections") /\ ev.args # NoName) =>
          /\ Children("tool") = {}
          /\ ev.result.status = "Failed to retry connection" =>
               /\ ev.result.isError
               /\ ev.result.details # NoError
               /\ ev.args \in DOMAIN connectionStatuses
               /\ ev.result.details = connectionStatuses[ev.args].error
          /\ ev.result.status = "connected" =>
               /\ ~ev.result.isError
               /\ ev.args \in DOMAIN connections)

\* C11 witness: a targeted retry returned after its connect attempt failed.
C11_Witness ==
  /\ ToolReturned("retry_failed_connections") /\ ev.args # NoName
  /\ ev.result.status = "Failed to retry connection"
  /\ ev.result.details = ConnectFailed

\* C12: disconnectAll invokes disconnect() on every driver of the live-handle
\* map whatever the outcome of the others, never rejects because a
\* disconnect failed, and when it resolves both maps are empty.
C12_DisconnectAllBestEffort ==
  /\ discAllOp.active =>
       \A n \in DOMAIN connections : drivers[connections[n]].disconnectCalled
  /\ (ev.op = "disconnectAll" /\ ev.what \in {"resolved", "rejected"}) =>
       /\ ev.what = "resolved"
       /\ connections = EmptyMap
       /\ connectionStatuses = EmptyMap

\* C12 witness: disconnectAll resolved although a disconnect had failed.
C12_Witness ==
  ev.op = "disconnectAll" /\ ev.what = "resolved" /\ ev.failed # {}

\* C13: disconnectAll is terminal.  Stated for the first step of the claimed
\* interval: the step that follows disconnectAll's resolution, unless it is
\* a call of initializeConnections (directly or by start), leaves the status
\* map and the live-handle map empty (stated as claimed; nothing in the code
\* stops a later tool call from connecting lazily).
C13_DisconnectAllTerminal ==
  [][(/\ ev.op = "disconnectAll" /\ ev.what = "resolved"
      /\ ev'.op \notin {"initializeConnections", "start"})
     => (connections' = EmptyMap /\ connectionStatuses' = EmptyMap)]_vars

\* A targetless handleListDatabases that selected the single active
\* connection has returned.
AutoSelected ==
  ToolReturned("list_databases") /\ ev.args = NoName /\ ev.name # NoName

\* C14: a targetless handleListDatabases that auto-selected the single
\* connected name returns that connection's listing, as the explicit request
\* does, and the result carries auto_detected = TRUE (stated as claimed; the
\* flag is computed from the args of the recursive call and is FALSE).
C14_AutoDetectedFlag ==
  AutoSelected =>
    /\ ev.result.status \in {"real_data", "mock_data_fallback"}
    /\ ev.result.connection = ev.name
    /\ ev.result.auto_detected

\* C15: a targetless handleListDatabases goes on to a catalog listing or a
\* connect attempt if and only if exactly one status entry is connected;
\* otherwise it returns at once, calls nothing and leaves the registry as it is.
C15_FetchOnlyWithSingleActive ==
  [][(~toolOp.active /\ ev'.op = "list_databases" /\ ev'.args = NoName)
     => IF Cardinality(activeConnections(connectionStatuses)) = 1
          THEN /\ ev'.what = "awaiting" /\ ev'.pc \in {"catalog", "connect"}
               /\ toolOp'.active
          ELSE /\ ev'.what = "returned"
               /\ toolOp' = NoTool
               /\ RegistryUnchanged]_vars

\* C15 witness: a targetless call returned live catalog data of the single
\* active connection while another configured name was not connected.
C15_Witness ==
  /\ AutoSelected /\ ev.result.status = "real_data"
  /\ \E n \in DOMAIN connectionStatuses : ~connectionStatuses[n].connected

\* C16: with no connected entry, a targetless handleListDatabases returns an
\* error-flagged result that lists every configured name, carries the full
\* status snapshot and a non-empty list of suggestions (stated as claimed; the
\* names listed are the status map's keys, which can miss configured names).
C16_NoActiveListsConfigured ==
  (/\ ToolReturned("list_databases") /\ ev.args = NoName
   /\ activeConnections(connectionStatuses) = {}
   /\ DOMAIN settings # {})
  => /\ ev.result.isError
     /\ ev.result.configured_connections = DOMAIN settings
     /\ ev.result.connection_statuses = getConnectionStatus(connectionStatuses)
     /\ Len(ev.result.suggestions) > 0

\* A targetless handleListDatabases has returned the summary.
SummaryReturned ==
  /\ ToolReturned("list_databases") /\ ev.args = NoName
  /\ ev.result.status = "summary"

\* The fields of one entry of the summary: no catalog entries among them.
SummaryEntryFields == {"connection_name", "type", "status"}

ListedNames(result) ==
  IF "available" \in DOMAIN result THEN result.available
  ELSE IF "available_connections" \in DOMAIN result
    THEN result.available_connections
    ELSE {}

\* C18: list_databases, execute_query (given a query) and
\* retry_failed_connections, called with a name absent from the
\* configuration, return in the same step an error-flagged result that lists
\* every configured name, and leave the registry as it is (stated as
\* claimed; retry_failed_connections lists the status map's keys).
C18_UnknownNameListsAll ==
  [][(/\ ~toolOp.active
      /\ ev'.op \in {"list_databases", "execute_query", "retry_failed_connections"}
      /\ ev'.args \notin DOMAIN settings \cup {NoName}
      /\ ~(ev'.what = "returned" /\ ev'.result = execMissingQuery))
     => /\ ev'.what = "returned"
        /\ ev'.result.isError
        /\ ListedNames(ev'.result) = DOMAIN settings
        /\ RegistryUnchanged]_vars

\* C19: handleListDatabases with an explicit configured name returns a
\* result that is never error-flagged: live catalog data when a live handle
\* exists and its listing succeeded, and after any connect or catalog
\* failure a mock_data_fallback result with the error text and a note.
C19_ListNeverErrorsForConfigured ==
  (/\ ToolReturned("list_databases")
   /\ ev.args # NoName /\ ev.args \in DOMAIN settings)
  => /\ ~ev.result.isError
     /\ ev.result.status \in {"real_data", "mock_data_fallback"}
     /\ ev.result.status = "real_data" =>
          /\ ev.args \in DOMAIN connections
          /\ ev.result.databases = Catalog(settings[ev.args])
     /\ ev.args \notin DOMAIN connections =>
          ev.result.status = "mock_data_fallback"
     /\ ev.result.status = "mock_data_fallback" =>
          /\ ev.result.error \in {InvalidConfig, ConnectFailed, DisconnectFailed,
                                  NoDriverMessage, CatalogFailed}
          /\ ev.result.note # ""

\* C19 witness: a failed connect attempt has come back as fallback data.
C19_Witness ==
  /\ ToolReturned("list_databases") /\ ev.args # NoName
  /\ ev.result.status = "mock_data_fallback"
  /\ ev.result.error = ConnectFailed

\* The name field of each entry of a fallback dataset.
EntryNames(databases) == [i \in DOMAIN databases |-> databases[i].name]

\* C20: the fallback dataset is fixed by the connection's kind and config:
\* postgresql has 4 entries (postgres, template0, template1 and the
\* configured database), mysql has 5 (four system schemas and the configured
\* database), sqlite has 1 describing the file path; the result is marked
\* mock_data_fallback and carries a non-empty error.
C20_FallbackDataset ==
  (ToolReturned("list_databases") /\ ev.result.status = "mock_data_fallback")
  => LET config == settings[ev.name]
         databases == ev.result.databases
     IN /\ ev.result.error \notin {NoError, ""}
        /\ config.type = "postgresql" =>
             /\ Len(databases) = 4
             /\ SubSeq(EntryNames(databases), 1, 3)
                  = <<"postgres", "template0", "template1">>
             /\ config.database # NoValue => databases[4].name = config.database
        /\ config.type = "mysql" =>
             /\ Len(databases) = 5
             /\ SubSeq(EntryNames(databases), 1, 4)
                  = <<"information_schema", "performance_schema", "mysql", "sys">>
             /\ config.database # NoValue => databases[5].name = config.database
        /\ config.type = "sqlite" =>
             /\ Len(databases) = 1
             /\ databases[1].file = config.path

\* C20 witness: an unreachable postgresql connection with a configured
\* database came back with the four-entry dataset.
C20_Witness ==
  /\ ToolReturned("list_databases")
  /\ ev.result.status = "mock_data_fallback"
  /\ settings[ev.name].type = "postgresql"
  /\ settings[ev.name].database # NoValue
  /\ ev.result.error = ConnectFailed
  /\ Len(ev.result.databases) = 4

\* handleListConnections has returned.
ConnectionsListed == ToolReturned("list_connections")

\* The configuration with every non-empty password given another value.
OtherPasswords == {"hunter2", "s3cret"}
Repassword(st, passwords) ==
  [n \in DOMAIN st |-> IF st[n].password \in {NoValue, ""} THEN st[n]
                       ELSE [st[n] EXCEPT !.password = passwords[n]]]
RepasswordStatuses(statuses, st) ==
  [n \in DOMAIN statuses |-> [statuses[n] EXCEPT !.config = st[n]]]

\* The strings one element of the output carries.
EntryStrings(entry) ==
  {entry.type, entry.status, entry.error} \cup Range(entry.details)
    \cup (IF "credentials" \in DOMAIN entry THEN Range(entry.credentials) ELSE {})

\* C21: the output of handleListConnections is the same for configurations
\* that differ only in the values of their non-empty passwords and holds no
\* configured password; without include_credentials no entry has
\* credentials, with it a network entry has the username and the marker
\* ***masked*** only, and a sqlite entry never has credentials.
C21_PasswordsNeverListed ==
  ConnectionsListed =>
    /\ \A passwords \in [DOMAIN settings -> OtherPasswords] :
         LET other == Repassword(settings, passwords)
         IN listConnections(other, RepasswordStatuses(connectionStatuses, other), ev.args)
              = ev.result
    /\ \A n \in DOMAIN settings :
         LET entry == ev.result.connections[n]
             config == settings[n]
         IN /\ config.password \notin {NoValue, ""} =>
                 config.password \notin EntryStrings(entry)
            /\ ("credentials" \in DOMAIN entry) <=> (ev.args /\ config.type # "sqlite")
            /\ "credentials" \in DOMAIN entry =>
                 /\ entry.credentials.username = config.username
                 /\ entry.credentials.password
                      = IF config.password \in {NoValue, ""} THEN NoValue ELSE Masked

\* C21 witness: credentials were asked for and a configured password came
\* back as the marker, next to an entry of a failed connection with its error.
C21_Witness ==
  /\ ConnectionsListed /\ ev.args
  /\ \E n \in DOMAIN settings :
       /\ settings[n].password = "hunter2"
       /\ ev.result.connections[n].credentials.password = Masked
  /\ \E n \in DOMAIN settings : ev.result.connections[n].error = ConnectFailed

\* C22: handleListConnections reports a configured connection as connected
\* when its status entry is connected, as failed when an attempt was made
\* for it and it is not connected, and as configured when no attempt was
\* ever made for it (stated as claimed; the code tells the last two apart
\* by the presence of a status entry).
C22_ConnectionLabels ==
  ConnectionsListed =>
    \A n \in DOMAIN settings :
      ev.result.connections[n].status
        = IF n \in DOMAIN connectionStatuses /\ connectionStatuses[n].connected
            THEN "connected"
            ELSE IF n \in attempted THEN "failed" ELSE "configured"

\* addConnection(name) has rejected because createAndConnect threw.
ConnectRejected ==
  /\ ev.op = "addConnection" /\ ev.what = "rejected"
  /\ ev.message \in {InvalidConfig, ConnectFailed}

\* C23: when addConnection rejects because its connect attempt failed, the
\* registry already shows the failure: the name's status entry has
\* connected = FALSE and the failure's message as error, and the name has
\* no live handle.
C23_FailureRecordedBeforeReject ==
  ConnectRejected =>
    /\ ev.name \in DOMAIN connectionStatuses
    /\ ~connectionStatuses[ev.name].connected
    /\ connectionStatuses[ev.name].error = ev.message
    /\ ev.name \notin DOMAIN connections

\* C23 witness: a direct addConnection call rejected with a connect failure
\* (reached also on the replace path, after the old handle was removed).
C23_Witness == ConnectRejected /\ ev.caller = "user" /\ ev.message = ConnectFailed

\* C24: while an addConnection call is in flight its name has a status
\* entry with connected = FALSE and no error, also when the call replaces
\* a live connection of that name (stated as claimed; on the replace path
\* removeConnection deletes the entry and the connect runs without one).
C24_StatusEntryWhileAttempting ==
  \A f \in BagToSet(calls) :
    f.op = "add" =>
      /\ f.name \in DOMAIN connectionStatuses
      /\ connectionStatuses[f.name] = StatusAttempt(f.config)

\* C25: REMOVED is terminal.  Stated for the first step of the claim's
\* "never again": the step that follows a removeConnection(name) that
\* disconnected the name's handle and resolved leaves the name without a
\* status entry (stated as claimed; addConnection accepts a removed name
\* like a new one).
C25_RemovedIsTerminal ==
  [][(ev.op = "removeConnection" /\ ev.what = "resolved" /\ ev.handle)
     => ev.name \notin DOMAIN connectionStatuses']_vars

\* No addConnection call for name n is in flight.
AttemptsSettled(n) == \A f \in BagToSet(calls) : ~(f.op = "add" /\ f.name = n)

\* C26: overlapping attempts for one name are ordered, so that once they
\* have all settled the name's status and live handle show the outcome of
\* one attempt, the latest: a status that records a failed connect goes with
\* no live handle, and a connected status goes with a live handle (stated
\* as claimed; the attempts are not ordered and the last one to settle
\* writes the status over another attempt's handle).
C26_LatestAttemptWins ==
  \A n \in DOMAIN connectionStatuses :
    AttemptsSettled(n) =>
      /\ connectionStatuses[n].error \in {InvalidConfig, ConnectFailed} =>
           n \notin DOMAIN connections
      /\ connectionStatuses[n].connected => n \in DOMAIN connections

\* The step leaves the status entry and the live handle of name m as they were.
Untouched(m) ==
  /\ (m \in DOMAIN connectionStatuses') <=> (m \in DOMAIN connectionStatuses)
  /\ m \in DOMAIN connectionStatuses => connectionStatuses'[m] = connectionStatuses[m]
  /\ (m \in DOMAIN connections') <=> (m \in DOMAIN connections)
  /\ m \in DOMAIN connections => connections'[m] = connections[m]
OthersUntouched(names) == \A m \in DOMAIN settings \ names : Untouched(m)

\* C27: under any interleaving, a step of addConnection or removeConnection
\* for one name (called directly, by initializeConnections for each supplied
\* config, or by retryFailedConnections for the entry it retries) leaves
\* the status entry and the live handle of every other name unchanged.
C27_OtherNamesUntouched ==
  [][/\ \A config \in Range(settings) :
          AddConnection(config) => OthersUntouched({config.name})
     /\ \A name \in DOMAIN settings :
          RemoveConnection(name) => OthersUntouched({name})
     /\ \A f \in BagToSet(calls), ok \in BOOLEAN :
          (AddAfterRemove(f, ok) \/ AddAfterConnect(f, ok) \/ RemoveAfterDisconnect(f, ok))
            => OthersUntouched({f.name})
     /\ \A configs \in ConfigSets :
          InitializeConnections(configs) => OthersUntouched({c.name : c \in configs})
     /\ (RetryFailedConnections \/ RetryNext) =>
          IF retryOp'.active
            THEN OthersUntouched({retryOp'.attempted[Len(retryOp'.attempted)]})
            ELSE OthersUntouched({})]_vars

\* C27 witness: an addConnection for one name and a removeConnection for
\* another are in flight together, and the status map holds both names.
C27_Witness ==
  \E f \in BagToSet(calls), g \in BagToSet(calls) :
    /\ f.op = "add" /\ g.op = "remove" /\ f.name # g.name
    /\ {f.name, g.name} \subseteq DOMAIN connectionStatuses

\* The status objects addConnection writes for a config.
WholeStatuses(config) ==
  {StatusAttempt(config), StatusConnected(config)}
    \cup {StatusFailed(config, message) :
            message \in {InvalidConfig, ConnectFailed, DisconnectFailed}}

\* C28: the entries of a returned status list stay what they were when the
\* list was returned, whatever the registry does afterwards, and each is a
\* whole status as one write of addConnection stored it (or its copy
\* without the config), never a mixture of two writes.
C28_SnapshotIsPointInTime ==
  snapshot.taken =>
    \A n \in DOMAIN snapshot.entries :
      LET entry == snapshot.entries[n]
      IN /\ entry.value = entry.original
         /\ IF snapshot.detailed
              THEN entry.original \in WholeStatuses(settings[n])
              ELSE \E status \in WholeStatuses(settings[n]) :
                     entry.original = statusCopy(status)

\* C28 witness: a list returned by getDetailedConnectionStatus is still
\* held after the registry rewrote the status of one of its names and
\* deleted that of another.
C28_Witness ==
  /\ snapshot.taken /\ snapshot.detailed
  /\ \E n \in DOMAIN snapshot.entries :
       /\ n \in DOMAIN connectionStatuses
       /\ connectionStatuses[n] # snapshot.entries[n].original
  /\ \E n \in DOMAIN snapshot.entries : n \notin DOMAIN connectionStatuses

\* handleRetryFailedConnections without a target has returned.
RetryAllReturned == ToolReturned("retry_failed_connections") /\ ev.args = NoName

\* C29: handleRetryFailedConnections without a target returns once every
\* entry that was not connected has been retried and has settled; its
\* summary counts the status list as it is then (successful + failed =
\* total = number of status entries) and comes with that list.
C29_RetryAllSummary ==
  RetryAllReturned =>
    /\ ~ev.result.isError
    /\ Elements(ev.run.attempted) = ev.run.disconnectedAtStart
    /\ ~retryOp.active /\ Children("retry") = {}
    /\ \A n \in DOMAIN connectionStatuses : StatusSettled(connectionStatuses[n])
    /\ ev.result.total_connections = Cardinality(DOMAIN connectionStatuses)
    /\ ev.result.successful_connections = Cardinality(activeConnections(connectionStatuses))
    /\ ev.result.successful_connections + ev.result.failed_connections
         = ev.result.total_connections
    /\ ev.result.connection_statuses = getConnectionStatus(connectionStatuses)

\* C29 witness: two entries were retried, one now connected and one failed again.
C29_Witness ==
  /\ RetryAllReturned
  /\ Len(ev.run.attempted) = 2
  /\ \E n \in Elements(ev.run.attempted) : connectionStatuses[n].connected
  /\ \E n \in Elements(ev.run.attempted) : ~connectionStatuses[n].connected

\* C30: handleExecuteQuery always answers with a result.  A missing
\* connection_name, then a missing or non-string query, then an unknown
\* name are rejected with isError at once and in that order, the registry
\* untouched; a configured name goes on to connect or to the query.  When
\* the connect fails the handler returns from there, without a query,
\* an error-flagged result with status error and the failure's message and
\* no fallback data; a failed query is error-flagged too.
C30_ExecuteQueryErrors ==
  /\ [][\A args \in ToolArgs, queryOk \in BOOLEAN :
          HandleExecuteQuery(args, queryOk) =>
            IF args = NoName
              THEN /\ ev'.what = "returned" /\ ev'.result = execMissingName
                   /\ ev'.result.isError /\ RegistryUnchanged
            ELSE IF ~queryOk
              THEN /\ ev'.what = "returned" /\ ev'.result = execMissingQuery
                   /\ ev'.result.isError /\ RegistryUnchanged
            ELSE IF args \notin DOMAIN settings
              THEN /\ ev'.what = "returned" /\ ev'.result.isError
                   /\ ev'.result.status = "unknown_connection"
                   /\ RegistryUnchanged
            ELSE /\ ev'.what = "awaiting"
                 /\ ev'.pc = IF args \in DOMAIN connections THEN "query" ELSE "connect"]_vars
  /\ [][(/\ toolOp.active /\ toolOp.tool = "execute_query" /\ toolOp.pc = "connect"
         /\ ev'.op = "execute_query" /\ ev'.what = "returned")
        => /\ ev'.result.isError
           /\ ev'.result.status = "error"
           /\ ev'.result.error \in {InvalidConfig, ConnectFailed, DisconnectFailed}
           /\ ev'.result.error = connectionStatuses'[ev'.name].error
           /\ "databases" \notin DOMAIN ev'.result]_vars
  /\ [](ToolReturned("execute_query") =>
          /\ ev.result.isError <=> ev.result.status # "success"
          /\ ev.result.status = "success" => ev.name \in DOMAIN connections)

\* C30 witness: a query for a configured connection without a handle came
\* back as an error because the connect failed.
C30_Witness ==
  /\ ToolReturned("execute_query")
  /\ ev.result.status = "error"
  /\ ev.result.error = ConnectFailed

\* The names of the connection objects of a JSON array.
ArrayNames(array) == {array[i].name : i \in DOMAIN array}

ConfigLoaded == ev.op = "loadConfig" /\ ev.what = "resolved"

\* C31: when DATABASE_CONNECTIONS_FILE is set (to a non-empty value), loadConfig
\* takes the JSON connections from that file only: it succeeds exactly when
\* the file loads, whatever DATABASE_CONNECTIONS holds, and the loaded names
\* are the file's and the individual ones.  DATABASE_CONNECTIONS is read when
\* the file variable is not set: then loadConfig succeeds exactly when that
\* text parses, and the loaded names are its names and the individual ones.
C31_FileBeforeVariable ==
  ev.op = "loadConfig" =>
    LET fromFile == loadJsonConnectionsFromFile(env.file)
        fromVariable == parseJsonConnections(env.DATABASE_CONNECTIONS)
        individual == DOMAIN buildIndividualDatabaseConfigs(env)
    IN /\ Truthy(env.DATABASE_CONNECTIONS_FILE) =>
            /\ (ev.what = "resolved") <=> fromFile.ok
            /\ ev.what = "resolved" =>
                 /\ DOMAIN settings = ArrayNames(fromFile.value) \cup individual
                 /\ \A n \in DOMAIN settings \ individual :
                      settings[n] \in Elements(fromFile.value)
       /\ (~Truthy(env.DATABASE_CONNECTIONS_FILE) /\ Truthy(env.DATABASE_CONNECTIONS)) =>
            /\ (ev.what = "resolved") <=> fromVariable.ok
            /\ ev.what = "resolved" =>
                 /\ DOMAIN settings = ArrayNames(fromVariable.value) \cup individual
                 /\ \A n \in DOMAIN settings \ individual :
                      settings[n] \in Elements(fromVariable.value)

\* Both sources are set and hold other names; only the file's name is loaded.
C31_Witness ==
  /\ ConfigLoaded
  /\ env.DATABASE_CONNECTIONS_FILE = "./connections.json"
  /\ env.file = "[sqlite:a]"
  /\ env.DATABASE_CONNECTIONS = "[json_db:a]"
  /\ DOMAIN settings = {"sqlite"}

\* C32: the settings loadConfig builds hold, under its own name, every
\* connection of the individual variables and every JSON connection; a name
\* both have carries the individual-variable connection, and a JSON-only name
\* carries the (last) JSON connection of that name.
C32_IndividualOverJson ==
  ConfigLoaded =>
    LET json == FromConnections(jsonConnections(env).value)
        individual == buildIndividualDatabaseConfigs(env)
    IN /\ DOMAIN settings = DOMAIN json \cup DOMAIN individual
       /\ \A n \in DOMAIN settings : settings[n].name = n
       /\ \A n \in DOMAIN individual : settings[n] = individual[n]
       /\ \A n \in DOMAIN json \ DOMAIN individual : settings[n] = json[n]

\* The JSON source and SQLITE_DB_PATH both define sqlite; json_db comes from
\* the JSON source alone.
C32_Witness ==
  /\ ConfigLoaded
  /\ jsonConnections(env).value = JSONparse("[sqlite:a,json_db:a]").value
  /\ env.SQLITE_DB_PATH = "./individual.db"
  /\ settings["sqlite"].path = "./individual.db"
  /\ settings["json_db"].path = "./a.db"

\* A tool handler has returned its result through the CallTool request handler.
ToolCallReturned ==
  /\ ev.what = "returned"
  /\ ev.op \in {"list_databases", "execute_query", "retry_failed_connections",
               "list_connections"}

\* C33: whenever a tool handler returns an error-flagged result (isError true),
\* the response the CallTool request handler returns carries the error flag.
\* (The handler has returned, so the call is not rejected.)
C33_ErrorFlagSurfaced ==
  (ToolCallReturned /\ ev.result.isError) => IsErrorResponse(ev.response)

\* The handlers with a get-or-create step.
LazyTools == {"list_databases", "execute_query"}

\* The addConnection frames a tool handler awaits.
ToolFrames(frames) == {f \in BagToSet(frames) : f.caller = "tool" /\ f.op = "add"}

\* C34: a list_databases or execute_query call that reaches its get-or-create
\* step with a configured name awaits one addConnection of that name when the
\* name has no live handle, and with a live handle it calls none and uses that
\* handle; it starts no other addConnection before it returns.  When the
\* awaited addConnection resolves the name is connected and its registered
\* driver is the one used; when it rejects the handler returns, and the error
\* text of its result is the one the registry holds with connected = FALSE.
C34_GetOrCreate ==
  [][/\ (~toolOp.active /\ toolOp'.active /\ toolOp'.tool \in LazyTools) =>
          LET name == toolOp'.name
          IN /\ name \in DOMAIN settings
             /\ IF name \in DOMAIN connections
                  THEN /\ calls' = calls /\ RegistryUnchanged
                       /\ toolOp'.pc \in {"catalog", "query"}
                       /\ toolOp'.driver = connections[name]
                  ELSE /\ toolOp'.pc = "connect"
                       /\ BagCardinality(calls') = BagCardinality(calls) + 1
                       /\ \E f \in ToolFrames(calls') : f.name = name /\ ~BagIn(f, calls)
     /\ (toolOp.active /\ toolOp.tool \in LazyTools) =>
          /\ BagCardinality(calls') <= BagCardinality(calls)
          /\ (toolOp.pc = "connect" /\ toolOp'.active) =>
               /\ toolOp.name \in DOMAIN connections'
               /\ connectionStatuses'[toolOp.name].connected
               /\ toolOp'.driver = connections'[toolOp.name]
          /\ (toolOp.pc = "connect" /\ ~toolOp'.active) =>
               /\ ev'.what = "returned"
               /\ toolOp.name \notin DOMAIN connections'
               /\ ~connectionStatuses'[toolOp.name].connected
               /\ ev'.result.error # NoError
               /\ ev'.result.error = connectionStatuses'[toolOp.name].error
    ]_vars

\* A lazy connect has just failed and is reported with the registry's error
\* text, while another name holds the handle an earlier call connected.
C34_Witness ==
  /\ ToolReturned("list_databases")
  /\ ev.name \in DOMAIN connectionStatuses
  /\ ev.name \notin DOMAIN connections
  /\ ev.result.error = ConnectFailed
  /\ connectionStatuses[ev.name].error = ConnectFailed
  /\ \E n \in DOMAIN connections : n # ev.name /\ connectionStatuses[n].connected

\* C35: when handleListDatabases or handleExecuteQuery issues its driver call
\* (listDatabases, executeQuery), disconnect() has not been called on that
\* driver and the status of the handler's connection name has connected =
\* TRUE, whatever manager calls are in flight.
C35_CallsOnLiveDriversOnly ==
  [][(/\ toolOp'.active /\ toolOp'.pc \in {"catalog", "query"}
      /\ (~toolOp.active \/ toolOp.pc = "connect")) =>
       /\ toolOp'.driver \in DOMAIN drivers'
       /\ ~drivers'[toolOp'.driver].disconnectCalled
       /\ toolOp'.name \in DOMAIN connectionStatuses'
       /\ connectionStatuses'[toolOp'.name].connected
    ]_vars

\* The addConnection frames a step has started.
StartedFrames ==
  {f \in BagToSet(calls') : f.op = "add" /\ CopiesIn(f, calls') > CopiesIn(f, calls)}

\* C36: in every reachable state a status entry with connected = TRUE has no
\* error, so an error is found on entries with connected = FALSE only; and a
\* step that begins addConnection attempts leaves each attempted name with an
\* entry that has no error.
C36_ErrorOnlyWhenDisconnected ==
  /\ [](\A n \in DOMAIN connectionStatuses :
          connectionStatuses[n].connected => connectionStatuses[n].error = NoError)
  /\ [][BagCardinality(calls') > BagCardinality(calls) =>
          \A f \in StartedFrames :
             /\ f.name \in DOMAIN connectionStatuses'
             /\ connectionStatuses'[f.name].error = NoError
             /\ ~connectionStatuses'[f.name].connected]_vars

\* A status list copied earlier shows name m failed with an error; m is now
\* being attempted again and its entry has no error, next to a connected name
\* without an error.
C36_Witness ==
  /\ snapshot.taken /\ ~snapshot.detailed
  /\ \E n, m \in DOMAIN connectionStatuses :
       /\ connectionStatuses[n].connected /\ connectionStatuses[n].error = NoError
       /\ m \in DOMAIN snapshot.entries
       /\ snapshot.entries[m].value.error # NoError
       /\ ~connectionStatuses[m].connected
       /\ connectionStatuses[m].error = NoError
       /\ \E f \in BagToSet(calls) : f.op = "add" /\ f.name = m

\* A step in which handleListDatabases or handleListConnections was called
\* and returned.
ListingCalled ==
  /\ ev' # ev
  /\ ev'.op \in {"list_databases", "list_connections"}

\* C38: while no loadConfig has succeeded, a handleListDatabases or
\* handleListConnections call returns (it does not throw) a result with
\* isError and the configuration error's message, starts no addConnection and
\* leaves the registry as it was.
C38_ConfigurationErrorReported ==
  [][(settings = NotLoaded /\ ListingCalled) =>
       /\ ev'.what = "returned"
       /\ ev'.result.isError
       /\ ev'.result.error = ConfigNotLoaded
       /\ ~toolOp'.active
       /\ RegistryUnchanged
       /\ attempted' = attempted
    ]_vars

\* handleListDatabases was called with a connection name before any
\* configuration was loaded.
C38_Witness ==
  /\ settings = NotLoaded
  /\ ToolReturned("list_databases")
  /\ ev.args \in ToolNames
  /\ ev.result.error = ConfigNotLoaded
  /\ calls = EmptyBag /\ connectionStatuses = EmptyMap

\* A handleListDatabases call without a connection_name is suspended.
TargetlessPending ==
  toolOp.active /\ toolOp.tool = "list_databases" /\ toolOp.args = NoName

\* C37: no connection with an empty name is ever active, so the recursive
\* call of the auto-detection branch carries a name: the suspended call of a
\* targetless request is the explicit path for that name, and no request
\* ends in the error of a recursion without end.  A targetless request that
\* is suspended returns once the calls it awaits settle.
C37_AutoDetectOneLevel ==
  /\ [](\A n \in DOMAIN connectionStatuses :
          connectionStatuses[n].connected => connectionStatuses[n].name # NoName)
  /\ [](TargetlessPending => toolOp.name # NoName /\ toolOp.name \in DOMAIN settings)
  /\ [](ToolReturned("list_databases") =>
          ~(ev.result.status = "error" /\ ev.result.error = CallStackExceeded))
  /\ (TargetlessPending ~> ~toolOp.active)

\* A targetless request auto-selected the single active connection and
\* returned, while the connection with the empty name was attempted and is
\* not active.
C37_Witness ==
  /\ AutoSelected
  /\ NoName \in DOMAIN connectionStatuses
  /\ ~connectionStatuses[NoName].connected
  /\ connectionStatuses[NoName].error = InvalidConfig
  /\ ev.result.status = "real_data"

\* C39: retry(fn, maxRetries, baseDelay) calls fn at most maxRetries times.
\* It resolves with the value of the first fn() call that resolved, all calls
\* before it having failed, and rejects only after maxRetries failed calls,
\* with the error of the last one; once settled it calls nothing more.  The
\* k-th failed call is followed by a sleep of baseDelay * 2^(k-1), except the
\* maxRetries-th, which is followed by none.
C39_RetryBackoff ==
  /\ [](LET op == backoffOp
             failed == Len(op.failures)
         IN op.pc \notin {"none", "args"} =>
              /\ op.calls <= op.maxRetries
              /\ op.failures = [k \in 1..failed |-> k]
              /\ \A k \in DOMAIN op.sleeps :
                   op.sleeps[k] = IF k = 1 THEN op.baseDelay ELSE 2 * op.sleeps[k - 1]
              /\ op.pc = "fn" => op.calls = failed + 1 /\ Len(op.sleeps) = failed
              /\ op.pc = "sleep" => /\ op.calls = failed /\ Len(op.sleeps) = failed
                                    /\ failed < op.maxRetries
              /\ op.pc = "resolved" => /\ op.outcome = op.calls /\ op.calls = failed + 1
                                       /\ Len(op.sleeps) = failed
              /\ op.pc = "rejected" => /\ op.calls = op.maxRetries /\ failed = op.maxRetries
                                       /\ op.outcome = op.calls
                                       /\ Len(op.sleeps) = IF failed = 0 THEN 0 ELSE failed - 1)
  /\ [][backoffOp.pc \in {"resolved", "rejected"} => backoffOp' = backoffOp]_vars

\* Three attempts failed: the call rejected with the third error after
\* sleeping 1000 and 2000 ms.
C39_Witness ==
  /\ backoffOp.pc = "rejected" /\ backoffOp.maxRetries = 3
  /\ backoffOp.outcome = 3
  /\ backoffOp.sleeps = <<1000, 2000>>

====
